---- MODULE Spec2Model ----
(***************************************************************************)
(* Move generator (movegen.cpp) and transposition table (tt.h) of the      *)
(* engine, as state machines.  Bitboards are sets of squares 0..63         *)
(* (A1 = 0, H1 = 7, A8 = 56, H8 = 63), a move list is a sequence of moves, *)
(* a 32-bit word is a function from bit index to 0/1.                      *)
(***************************************************************************)
EXTENDS Integers, Sequences, FiniteSets

VARIABLES pos, gen, tte, call, entries, generation, ttOp, shadow, thr

vars == <<pos, gen, tte, call, entries, generation, ttOp, shadow, thr>>

(***************************************************************************)
(* Squares, colours, pieces                                                *)
(***************************************************************************)
SQ_NONE == 64
Squares == 0 .. 63

square_file(s) == s % 8
square_rank(s) == s \div 8
make_square(f, r) == r * 8 + f

FILE_A == 0
FILE_B == 1
FILE_H == 7
RANK_1 == 0
RANK_4 == 3
RANK_5 == 4
RANK_8 == 7

WHITE == "WHITE"
BLACK == "BLACK"
NOCOLOR == "NOCOLOR"
PAWN == "PAWN"
KNIGHT == "KNIGHT"
BISHOP == "BISHOP"
ROOK == "ROOK"
QUEEN == "QUEEN"
KING == "KING"
NOTYPE == "NOTYPE"

opposite_color(c) == IF c = WHITE THEN BLACK ELSE WHITE

piece_of_color_and_type(c, t) == <<c, t>>
color_of_piece(pc) == pc[1]
type_of_piece(pc) == pc[2]
EMPTY == <<NOCOLOR, NOTYPE>>

\* relative_square(c, s): s seen from c's side of the board (rank mirrored for black)
relative_square(c, s) == IF c = WHITE THEN s ELSE make_square(square_file(s), 7 - square_rank(s))

SQ_A1 == 0
SQ_C1 == 2
SQ_D1 == 3
SQ_F1 == 5
SQ_G1 == 6

DELTA_N == 8
DELTA_S == -8
DELTA_NE == 9
DELTA_SE == -7
DELTA_NW == 7
DELTA_SW == -9
DELTA_NN == 16
DELTA_SS == -16

FileABB == {s \in Squares : square_file(s) = FILE_A}
FileHBB == {s \in Squares : square_file(s) = FILE_H}
Rank2BB == {s \in Squares : square_rank(s) = 1}
Rank3BB == {s \in Squares : square_rank(s) = 2}
Rank6BB == {s \in Squares : square_rank(s) = 5}
Rank7BB == {s \in Squares : square_rank(s) = 6}
file_bb(s) == {t \in Squares : square_file(t) = square_file(s)}
EmptyBoardBB == {}

Abs(x) == IF x < 0 THEN -x ELSE x
Sgn(x) == IF x < 0 THEN -1 ELSE IF x > 0 THEN 1 ELSE 0
Min(a, b) == IF a < b THEN a ELSE b
Max(a, b) == IF a < b THEN b ELSE a

FileDist(a, b) == Abs(square_file(a) - square_file(b))
RankDist(a, b) == Abs(square_rank(a) - square_rank(b))

\* two distinct squares on a common rank, file or diagonal
OnRookLine(a, b) == a # b /\ (square_file(a) = square_file(b) \/ square_rank(a) = square_rank(b))
OnBishopLine(a, b) == a # b /\ FileDist(a, b) = RankDist(a, b)

\* the step (file step, rank step) from a towards b when they are aligned
StepF(a, b) == Sgn(square_file(b) - square_file(a))
StepR(a, b) == Sgn(square_rank(b) - square_rank(a))

\* squares strictly between a and b on their common line; empty when not aligned
BetweenTable ==
  [a \in Squares |-> [b \in Squares |->
     IF OnRookLine(a, b) \/ OnBishopLine(a, b)
     THEN {t \in Squares : /\ t # a /\ t # b
                           /\ (OnRookLine(a, t) \/ OnBishopLine(a, t))
                           /\ StepF(a, t) = StepF(a, b) /\ StepR(a, t) = StepR(a, b)
                           /\ Max(FileDist(a, t), RankDist(a, t)) < Max(FileDist(a, b), RankDist(a, b))}
     ELSE {}]]
squares_between(a, b) == BetweenTable[a][b]

\* attack patterns on an empty board
RookPseudoAttacks == [s \in Squares |-> {t \in Squares : OnRookLine(s, t)}]
BishopPseudoAttacks == [s \in Squares |-> {t \in Squares : OnBishopLine(s, t)}]
QueenPseudoAttacks == [s \in Squares |-> RookPseudoAttacks[s] \cup BishopPseudoAttacks[s]]
KnightStepAttacks ==
  [s \in Squares |-> {t \in Squares : {FileDist(s, t), RankDist(s, t)} = {1, 2}}]
KingStepAttacks ==
  [s \in Squares |-> {t \in Squares : t # s /\ FileDist(s, t) <= 1 /\ RankDist(s, t) <= 1}]
\* squares a pawn of colour c standing on s attacks
PawnStepAttacks ==
  [c \in {WHITE, BLACK} |-> [s \in Squares |->
     {t \in Squares : /\ FileDist(s, t) = 1
                      /\ square_rank(t) - square_rank(s) = (IF c = WHITE THEN 1 ELSE -1)}]]

\* direction_between_squares as a (file step, rank step) pair; <<0, 0>> when not aligned
direction_between_squares(a, b) ==
  IF OnRookLine(a, b) \/ OnBishopLine(a, b) THEN <<StepF(a, b), StepR(a, b)>> ELSE <<0, 0>>

(***************************************************************************)
(* The position (the external collaborator's read-only queries).           *)
(* A position is a record                                                  *)
(*   board       : square -> piece                                         *)
(*   sideToMove  : colour                                                  *)
(*   epSquare    : en-passant target square or SQ_NONE                     *)
(*   castleK, castleQ : the colours that still hold that castling right    *)
(*   initialKR, initialQR : colour -> starting square of that rook         *)
(***************************************************************************)
piece_on(p, s) == p.board[s]
color_of_piece_on(p, s) == color_of_piece(p.board[s])
type_of_piece_on(p, s) == type_of_piece(p.board[s])
square_is_empty(p, s) == p.board[s] = EMPTY
square_is_occupied(p, s) == p.board[s] # EMPTY
side_to_move(p) == p.sideToMove
ep_square(p) == p.epSquare
can_castle_kingside(p, c) == c \in p.castleK
can_castle_queenside(p, c) == c \in p.castleQ
initial_kr_square(p, c) == p.initialKR[c]
initial_qr_square(p, c) == p.initialQR[c]

pieces_of_color(p, c) == {s \in Squares : color_of_piece(p.board[s]) = c}
pieces(p, t, c) == {s \in Squares : p.board[s] = <<c, t>>}
pieces_of_type(p, t) == {s \in Squares : type_of_piece(p.board[s]) = t}
occupied_squares(p) == {s \in Squares : p.board[s] # EMPTY}
empty_squares(p) == {s \in Squares : p.board[s] = EMPTY}
has_king(p, c) == pieces(p, KING, c) # {}
king_square(p, c) == CHOOSE s \in Squares : p.board[s] = <<c, KING>>

\* sliding attacks from s with blockers occ: the first blocker on a ray is attacked
rook_attacks_bb(s, occ) == {t \in RookPseudoAttacks[s] : squares_between(s, t) \cap occ = {}}
bishop_attacks_bb(s, occ) == {t \in BishopPseudoAttacks[s] : squares_between(s, t) \cap occ = {}}

\* the attack set of a non-pawn piece of type t on s with blockers occ
piece_attacks_bb(t, s, occ) ==
  CASE t = KNIGHT -> KnightStepAttacks[s]
    [] t = BISHOP -> bishop_attacks_bb(s, occ)
    [] t = ROOK   -> rook_attacks_bb(s, occ)
    [] t = QUEEN  -> rook_attacks_bb(s, occ) \cup bishop_attacks_bb(s, occ)
    [] t = KING   -> KingStepAttacks[s]
    [] OTHER      -> {}
\* attacks_from<Piece>(s) for the non-pawn piece types
attacks_from(p, t, s) == piece_attacks_bb(t, s, occupied_squares(p))
\* attacks_from<PAWN>(s, c)
attacks_from_pawn(s, c) == PawnStepAttacks[c][s]
\* attacks_from(Piece, s): by the piece standing on the square
attacks_from_piece(p, pc, s) ==
  IF type_of_piece(pc) = PAWN THEN attacks_from_pawn(s, color_of_piece(pc))
  ELSE attacks_from(p, type_of_piece(pc), s)

\* every piece of either colour that attacks s, with blockers occ
attackers_bb(p, s, occ) ==
  {a \in occ :
     LET t == type_of_piece_on(p, a)
     IN \/ (p.board[a] = <<WHITE, PAWN>> /\ a \in PawnStepAttacks[BLACK][s])
        \/ (p.board[a] = <<BLACK, PAWN>> /\ a \in PawnStepAttacks[WHITE][s])
        \/ (t = KNIGHT /\ a \in KnightStepAttacks[s])
        \/ (t \in {ROOK, QUEEN} /\ a \in rook_attacks_bb(s, occ))
        \/ (t \in {BISHOP, QUEEN} /\ a \in bishop_attacks_bb(s, occ))
        \/ (t = KING /\ a \in KingStepAttacks[s])}
attackers_to(p, s) == attackers_bb(p, s, occupied_squares(p))

checkers(p) ==
  attackers_to(p, king_square(p, p.sideToMove)) \cap pieces_of_color(p, opposite_color(p.sideToMove))
is_check(p) == checkers(p) # {}

\* pieces of colour c standing alone between the king ksq and a slider of colour sliders
OnlyOwn(p, c, b) == IF Cardinality(b) = 1 /\ b \cap pieces_of_color(p, c) # {} THEN b ELSE {}
hidden_checkers(p, c, ksq, sliders) ==
  UNION {OnlyOwn(p, c, squares_between(s, ksq) \cap occupied_squares(p)) :
           s \in {x \in pieces_of_color(p, sliders) :
                    \/ (type_of_piece_on(p, x) \in {ROOK, QUEEN} /\ x \in RookPseudoAttacks[ksq])
                    \/ (type_of_piece_on(p, x) \in {BISHOP, QUEEN} /\ x \in BishopPseudoAttacks[ksq])}}
pinned_pieces(p, c) == hidden_checkers(p, c, king_square(p, c), opposite_color(c))
discovered_check_candidates(p, c) == hidden_checkers(p, c, king_square(p, opposite_color(c)), c)

(***************************************************************************)
(* Moves                                                                   *)
(***************************************************************************)
make_move(from, to) == [from |-> from, to |-> to, special |-> "none", promo |-> NOTYPE]
make_promotion_move(from, to, t) == [from |-> from, to |-> to, special |-> "promotion", promo |-> t]
make_ep_move(from, to) == [from |-> from, to |-> to, special |-> "ep", promo |-> NOTYPE]
\* a castle is encoded as the king capturing its own rook
make_castle_move(from, to) == [from |-> from, to |-> to, special |-> "castle", promo |-> NOTYPE]
move_from(m) == m.from
move_to(m) == m.to
move_is_special(m) == m.special # "none"
move_is_castle(m) == m.special = "castle"
move_is_ep(m) == m.special = "ep"

\* the board after the pieces of an en-passant capture have moved
BoardAfterEp(p, m) ==
  LET us == p.sideToMove
      capsq == make_square(square_file(m.to), square_rank(m.from))
  IN [p.board EXCEPT ![m.from] = EMPTY, ![capsq] = EMPTY, ![m.to] = <<us, PAWN>>]

\* pl_move_is_legal(m, pinned): the legality predicate for a pseudo-legal move
\* no enemy slider attacks ksq on the board q
NoSliderAttack(q, ksq, them) ==
  {s \in attackers_to(q, ksq) :
     color_of_piece_on(q, s) = them /\ type_of_piece_on(q, s) \in {ROOK, BISHOP, QUEEN}} = {}
pl_move_is_legal(p, m, pinned) ==
  IF move_is_castle(m) THEN TRUE
  ELSE IF move_is_ep(m)
    THEN NoSliderAttack([p EXCEPT !.board = BoardAfterEp(p, m)], king_square(p, p.sideToMove),
                        opposite_color(p.sideToMove))
  ELSE IF type_of_piece_on(p, m.from) = KING
    THEN attackers_to(p, m.to) \cap pieces_of_color(p, opposite_color(p.sideToMove)) = {}
  ELSE \/ m.from \notin pinned
       \/ direction_between_squares(m.from, king_square(p, p.sideToMove))
            = direction_between_squares(m.to, king_square(p, p.sideToMove))

\* pl_move_is_evasion(m, pinned): the legality predicate when in check
\* the squares that block or capture the checkers ch of the king on ksq
EvasionTarget(ch, ksq) == (UNION {squares_between(c, ksq) : c \in ch}) \cup ch
pl_move_is_evasion(p, m, pinned) ==
  /\ \/ type_of_piece_on(p, m.from) = KING
     \/ move_is_ep(m)
     \/ /\ Cardinality(checkers(p)) = 1
        /\ m.to \in EvasionTarget(checkers(p), king_square(p, p.sideToMove))
  /\ pl_move_is_legal(p, m, pinned)

(***************************************************************************)
(* Move lists and the per-piece generators                                 *)
(***************************************************************************)
\* the squares of a bitboard in the order pop_1st_bit delivers them (lowest first)
RECURSIVE SerializeBB(_)
SerializeBB(b) ==
  IF b = {} THEN <<>>
  ELSE LET s == CHOOSE x \in b : \A y \in b : x <= y
       IN <<s>> \o SerializeBB(b \ {s})

\* the moves from 'from' to the squares sq, in order
MovesFrom(from, sq) == [i \in 1 .. Len(sq) |-> make_move(from, sq[i])]
\* SERIALIZE_MOVES(b): one move from the fixed square 'from' to every square of b
SERIALIZE_MOVES(from, b) == MovesFrom(from, SerializeBB(b))

\* the moves to the squares sq, each from its square plus d
MovesByDelta(sq, d) == [i \in 1 .. Len(sq) |-> make_move(sq[i] + d, sq[i])]
\* SERIALIZE_MOVES_D(b, d): the pawn version, the origin is the destination plus d
SERIALIZE_MOVES_D(b, d) == MovesByDelta(SerializeBB(b), d)

\* the per-piece-type square list of the position, terminated by SQ_NONE in the code
piece_list(p, us, Piece) == SerializeBB(pieces(p, Piece, us))

\* a generate_piece_moves loop that forgets to intersect the attacks with the target
RECURSIVE PieceMovesLoopNoTarget(_, _, _, _, _)
PieceMovesLoopNoTarget(Piece, sqs, i, occ, target) ==
  IF i > Len(sqs) THEN <<>>
  ELSE SERIALIZE_MOVES(sqs[i], piece_attacks_bb(Piece, sqs[i], occ))
       \o PieceMovesLoopNoTarget(Piece, sqs, i + 1, occ, target)

\* the loop of generate_piece_moves over the square list sqs, from its i-th square on
RECURSIVE PieceMovesLoop(_, _, _, _, _)
PieceMovesLoop(Piece, sqs, i, occ, target) ==
  IF i > Len(sqs) THEN <<>>
  ELSE SERIALIZE_MOVES(sqs[i], piece_attacks_bb(Piece, sqs[i], occ) \cap target)
       \o PieceMovesLoop(Piece, sqs, i + 1, occ, target)

\* generate_piece_moves<Piece>: knights, bishops, rooks and queens
generate_piece_moves(p, Piece, us, target) ==
  PieceMovesLoop(Piece, piece_list(p, us, Piece), 1, occupied_squares(p), target)

\* generate_piece_moves<KING>
generate_king_moves(p, us, target) ==
  LET from == king_square(p, us)
  IN SERIALIZE_MOVES(from, attacks_from(p, KING, from) \cap target)

\* move_pawns<Delta>: a 64-bit shift, bits pushed off the board are lost and a
\* diagonal shift wraps round the board's edge until the file mask removes it
move_pawns(Delta, b) == {s + Delta : s \in b} \cap Squares

TFileABB(Delta) == IF Delta = DELTA_NE \/ Delta = DELTA_SE THEN FileABB ELSE FileHBB

generate_pawn_captures(Delta, pawns, target) ==
  SERIALIZE_MOVES_D((move_pawns(Delta, pawns) \cap target) \ TFileABB(Delta), -Delta)

\* a generator that emits the queen promotion whatever the category
PromotionsToQueenAlways(p, Us, Type, Delta, to) ==
     <<make_promotion_move(to - Delta, to, QUEEN)>>
  \o (IF Type = "NON_CAPTURE" \/ Type = "EVASION"
      THEN <<make_promotion_move(to - Delta, to, ROOK),
             make_promotion_move(to - Delta, to, BISHOP),
             make_promotion_move(to - Delta, to, KNIGHT)>> ELSE <<>>)
  \o (IF Type = "CHECK" /\ king_square(p, opposite_color(Us)) \in attacks_from(p, KNIGHT, to)
      THEN <<make_promotion_move(to - Delta, to, KNIGHT)>> ELSE <<>>)

\* the moves generate_promotions emits for one destination square
PromotionsTo(p, Us, Type, Delta, to) ==
     (IF Type = "CAPTURE" \/ Type = "EVASION"
      THEN <<make_promotion_move(to - Delta, to, QUEEN)>> ELSE <<>>)
  \o (IF Type = "NON_CAPTURE" \/ Type = "EVASION"
      THEN <<make_promotion_move(to - Delta, to, ROOK),
             make_promotion_move(to - Delta, to, BISHOP),
             make_promotion_move(to - Delta, to, KNIGHT)>> ELSE <<>>)
  \o (IF Type = "CHECK" /\ king_square(p, opposite_color(Us)) \in attacks_from(p, KNIGHT, to)
      THEN <<make_promotion_move(to - Delta, to, KNIGHT)>> ELSE <<>>)

RECURSIVE PromotionsLoop(_, _, _, _, _, _)
PromotionsLoop(p, Us, Type, Delta, sq, i) ==
  IF i > Len(sq) THEN <<>>
  ELSE PromotionsTo(p, Us, Type, Delta, sq[i]) \o PromotionsLoop(p, Us, Type, Delta, sq, i + 1)

generate_promotions(p, Us, Type, Delta, pawnsOn7, target) ==
  PromotionsLoop(p, Us, Type, Delta,
                 SerializeBB(IF Delta # DELTA_N /\ Delta # DELTA_S
                             THEN (move_pawns(Delta, pawnsOn7) \cap target) \ TFileABB(Delta)
                             ELSE move_pawns(Delta, pawnsOn7) \cap target), 1)

\* the en-passant part of generate_pawn_moves (lines 585-606), with 'pawns' as it stands there
PawnEnPassant(p, Us, Type, pawns, target) ==
  IF (Type = "CAPTURE" \/ Type = "EVASION") /\ ep_square(p) # SQ_NONE
  THEN IF Type = "EVASION" /\ (ep_square(p) - (IF Us = WHITE THEN DELTA_N ELSE DELTA_S)) \notin target
       THEN <<>>
       ELSE [i \in 1 .. Cardinality(pawns \cap attacks_from_pawn(ep_square(p), opposite_color(Us))) |->
               make_ep_move(SerializeBB(pawns \cap attacks_from_pawn(ep_square(p), opposite_color(Us)))[i],
                            ep_square(p))]
  ELSE <<>>

\* promotions and underpromotions (lines 538-548)
PawnPromotions(p, Us, Type, pawnsOn7, enemyPieces, emptySquares) ==
  IF pawnsOn7 # {}
  THEN    generate_promotions(p, Us, Type, IF Us = WHITE THEN DELTA_NE ELSE DELTA_SE, pawnsOn7, enemyPieces)
       \o generate_promotions(p, Us, Type, IF Us = WHITE THEN DELTA_NW ELSE DELTA_SW, pawnsOn7, enemyPieces)
       \o generate_promotions(p, Us, Type, IF Us = WHITE THEN DELTA_N ELSE DELTA_S, pawnsOn7, emptySquares)
  ELSE <<>>

\* standard captures (lines 550-555)
PawnCaptures(Us, Type, pawns, enemyPieces) ==
  IF Type = "CAPTURE" \/ Type = "EVASION"
  THEN    generate_pawn_captures(IF Us = WHITE THEN DELTA_NE ELSE DELTA_SE, pawns, enemyPieces)
       \o generate_pawn_captures(IF Us = WHITE THEN DELTA_NW ELSE DELTA_SW, pawns, enemyPieces)
  ELSE <<>>

\* a double push that does not look at the destination square
PushB2Occupied(TDELTA_N, TRank3BB, firstStep, emptySquares) ==
  move_pawns(TDELTA_N, firstStep \cap TRank3BB)

\* the squares pawns reach by one push (b1) and by a double push (b2) when only direct
\* pushes count, and the discovered-check pushes dc1, dc2 of the CHECK category
PushB2(TDELTA_N, TRank3BB, firstStep, emptySquares) ==
  move_pawns(TDELTA_N, firstStep \cap TRank3BB) \cap emptySquares
PushDc1(TDELTA_N, Type, pawns, target, ksq, emptySquares) ==
  IF Type = "CHECK" /\ pawns \cap target # {}
  THEN move_pawns(TDELTA_N, (pawns \cap target) \ file_bb(ksq)) \cap emptySquares
  ELSE {}

\* single and double pawn pushes (lines 557-583)
PawnPushes(Us, Type, pawns, pawnPushes, emptySquares, target, ksq, TDELTA_N, TRank3BB) ==
  IF Type = "CAPTURE" THEN <<>>
  ELSE IF Type = "CHECK"
  THEN    SERIALIZE_MOVES_D(((pawnPushes \cap emptySquares) \cap attacks_from_pawn(ksq, opposite_color(Us)))
                              \cup PushDc1(TDELTA_N, Type, pawns, target, ksq, emptySquares),
                            -TDELTA_N)
       \o SERIALIZE_MOVES_D((PushB2(TDELTA_N, TRank3BB, pawnPushes, emptySquares)
                                \cap attacks_from_pawn(ksq, opposite_color(Us)))
                              \cup PushB2(TDELTA_N, TRank3BB,
                                          PushDc1(TDELTA_N, Type, pawns, target, ksq, emptySquares),
                                          emptySquares),
                            -TDELTA_N - TDELTA_N)
  ELSE    SERIALIZE_MOVES_D(pawnPushes \cap emptySquares, -TDELTA_N)
       \o SERIALIZE_MOVES_D(PushB2(TDELTA_N, TRank3BB, pawnPushes, emptySquares), -TDELTA_N - TDELTA_N)

\* the body of generate_pawn_moves once the locals of lines 521-536 are set:
\* pawns excludes the seventh-rank pawns (line 544)
PawnMovesBody(p, Us, Type, target, ksq, pawns, pawnsOn7, enemyPieces, emptySquares, pawnPushes) ==
     PawnPromotions(p, Us, Type, pawnsOn7, enemyPieces, emptySquares)
  \o PawnCaptures(Us, Type, pawns, enemyPieces)
  \o PawnPushes(Us, Type, pawns, pawnPushes, emptySquares, target, ksq,
                IF Us = WHITE THEN DELTA_N ELSE DELTA_S, IF Us = WHITE THEN Rank3BB ELSE Rank6BB)
  \o PawnEnPassant(p, Us, Type, pawns, target)

\* the locals of lines 521-536 from the position's bitboards; emptySquares is read
\* for CAPTURE only after line 542 has set it to the empty squares
PawnMovesLocals(p, Us, Type, target, ksq, allPawns, TRank7BB, themBB, emptyBB) ==
  PawnMovesBody(p, Us, Type, target, ksq,
                allPawns \ TRank7BB,
                allPawns \cap TRank7BB,
                IF Type = "CAPTURE" THEN target
                ELSE IF Type = "EVASION" THEN themBB \cap target ELSE themBB,
                IF Type = "NON_CAPTURE" THEN target
                ELSE IF Type = "EVASION" THEN emptyBB \cap target ELSE emptyBB,
                move_pawns(IF Us = WHITE THEN DELTA_N ELSE DELTA_S, allPawns \ TRank7BB)
                  \cap (IF Type = "NON_CAPTURE" THEN target ELSE emptyBB))

\* generate_pawn_moves<Us, Type>(pos, mlist, target, ksq)
generate_pawn_moves(p, Us, Type, target, ksq) ==
  PawnMovesLocals(p, Us, Type, target, ksq, pieces(p, PAWN, Us),
                  IF Us = WHITE THEN Rank7BB ELSE Rank2BB,
                  pieces_of_color(p, opposite_color(Us)), empty_squares(p))

(***************************************************************************)
(* Castling, evasions and the top-level generators                         *)
(***************************************************************************)
\* a castling generator that tests only the king's destination square for attacks
generate_castle_moves_dest_only(p, Side) ==
  LET us == side_to_move(p)
  IN IF \/ (Side = "KING_SIDE" /\ can_castle_kingside(p, us))
        \/ (Side = "QUEEN_SIDE" /\ can_castle_queenside(p, us))
     THEN LET them == opposite_color(us)
              ksq == king_square(p, us)
              rsq == IF Side = "KING_SIDE" THEN initial_kr_square(p, us) ELSE initial_qr_square(p, us)
              s1 == relative_square(us, IF Side = "KING_SIDE" THEN SQ_G1 ELSE SQ_C1)
              s2 == relative_square(us, IF Side = "KING_SIDE" THEN SQ_F1 ELSE SQ_D1)
              kingPath == \/ \E s \in Min(ksq, s1) .. Max(ksq, s1) :
                                s # ksq /\ s # rsq /\ square_is_occupied(p, s)
                          \/ attackers_to(p, s1) \cap pieces_of_color(p, them) # {}
              rookPath == \E s \in Min(rsq, s2) .. Max(rsq, s2) :
                             s # ksq /\ s # rsq /\ square_is_occupied(p, s)
              corner == /\ Side = "QUEEN_SIDE"
                        /\ square_file(rsq) = FILE_B
                        /\ \/ piece_on(p, relative_square(us, SQ_A1)) = piece_of_color_and_type(them, ROOK)
                           \/ piece_on(p, relative_square(us, SQ_A1)) = piece_of_color_and_type(them, QUEEN)
          IN IF ~(kingPath \/ rookPath \/ corner) THEN <<make_castle_move(ksq, rsq)>> ELSE <<>>
     ELSE <<>>

\* a castling generator that leaves the rook's own square out of the attack test
generate_castle_moves_rook_exempt(p, Side) ==
  LET us == side_to_move(p)
  IN IF \/ (Side = "KING_SIDE" /\ can_castle_kingside(p, us))
        \/ (Side = "QUEEN_SIDE" /\ can_castle_queenside(p, us))
     THEN LET them == opposite_color(us)
              ksq == king_square(p, us)
              rsq == IF Side = "KING_SIDE" THEN initial_kr_square(p, us) ELSE initial_qr_square(p, us)
              s1 == relative_square(us, IF Side = "KING_SIDE" THEN SQ_G1 ELSE SQ_C1)
              s2 == relative_square(us, IF Side = "KING_SIDE" THEN SQ_F1 ELSE SQ_D1)
              kingPath == \E s \in Min(ksq, s1) .. Max(ksq, s1) :
                             /\ s # ksq /\ s # rsq
                             /\ \/ square_is_occupied(p, s)
                                \/ attackers_to(p, s) \cap pieces_of_color(p, them) # {}
              rookPath == \E s \in Min(rsq, s2) .. Max(rsq, s2) :
                             s # ksq /\ s # rsq /\ square_is_occupied(p, s)
              corner == /\ Side = "QUEEN_SIDE"
                        /\ square_file(rsq) = FILE_B
                        /\ \/ piece_on(p, relative_square(us, SQ_A1)) = piece_of_color_and_type(them, ROOK)
                           \/ piece_on(p, relative_square(us, SQ_A1)) = piece_of_color_and_type(them, QUEEN)
              illegal == kingPath \/ rookPath \/ corner
          IN IF ~illegal THEN <<make_castle_move(ksq, rsq)>> ELSE <<>>
     ELSE <<>>

\* generate_castle_moves<Side>
generate_castle_moves(p, Side) ==
  LET us == side_to_move(p)
  IN IF \/ (Side = "KING_SIDE" /\ can_castle_kingside(p, us))
        \/ (Side = "QUEEN_SIDE" /\ can_castle_queenside(p, us))
     THEN LET them == opposite_color(us)
              ksq == king_square(p, us)
              rsq == IF Side = "KING_SIDE" THEN initial_kr_square(p, us) ELSE initial_qr_square(p, us)
              s1 == relative_square(us, IF Side = "KING_SIDE" THEN SQ_G1 ELSE SQ_C1)
              s2 == relative_square(us, IF Side = "KING_SIDE" THEN SQ_F1 ELSE SQ_D1)
              kingPath == \E s \in Min(ksq, s1) .. Max(ksq, s1) :
                             \/ (s # ksq /\ s # rsq /\ square_is_occupied(p, s))
                             \/ attackers_to(p, s) \cap pieces_of_color(p, them) # {}
              rookPath == \E s \in Min(rsq, s2) .. Max(rsq, s2) :
                             s # ksq /\ s # rsq /\ square_is_occupied(p, s)
              corner == /\ Side = "QUEEN_SIDE"
                        /\ square_file(rsq) = FILE_B
                        /\ \/ piece_on(p, relative_square(us, SQ_A1)) = piece_of_color_and_type(them, ROOK)
                           \/ piece_on(p, relative_square(us, SQ_A1)) = piece_of_color_and_type(them, QUEEN)
              illegal == kingPath \/ rookPath \/ corner
          IN IF ~illegal THEN <<make_castle_move(ksq, rsq)>> ELSE <<>>
     ELSE <<>>

\* generate_piece_moves<PAWN, Type>: dispatch on the side to move, ksq = SQ_NONE
generate_piece_moves_pawn(p, Type, us, t) == generate_pawn_moves(p, us, Type, t, SQ_NONE)

generate_captures(p) ==
  LET us == side_to_move(p)
      target == pieces_of_color(p, opposite_color(us))
  IN    generate_piece_moves(p, QUEEN, us, target)
     \o generate_piece_moves(p, ROOK, us, target)
     \o generate_piece_moves(p, BISHOP, us, target)
     \o generate_piece_moves(p, KNIGHT, us, target)
     \o generate_piece_moves_pawn(p, "CAPTURE", us, target)
     \o generate_king_moves(p, us, target)

generate_noncaptures(p) ==
  LET us == side_to_move(p)
      target == empty_squares(p)
  IN    generate_piece_moves_pawn(p, "NON_CAPTURE", us, target)
     \o generate_piece_moves(p, KNIGHT, us, target)
     \o generate_piece_moves(p, BISHOP, us, target)
     \o generate_piece_moves(p, ROOK, us, target)
     \o generate_piece_moves(p, QUEEN, us, target)
     \o generate_king_moves(p, us, target)
     \o generate_castle_moves(p, "KING_SIDE")
     \o generate_castle_moves(p, "QUEEN_SIDE")

\* a generate_non_evasions that widens the target before the pawn calls
generate_non_evasions_wide_target(p) ==
  LET us == side_to_move(p)
      target == pieces_of_color(p, opposite_color(us)) \cup empty_squares(p)
  IN    generate_piece_moves_pawn(p, "CAPTURE", us, target)
     \o generate_piece_moves_pawn(p, "NON_CAPTURE", us, target)
     \o generate_piece_moves(p, KNIGHT, us, target)
     \o generate_piece_moves(p, BISHOP, us, target)
     \o generate_piece_moves(p, ROOK, us, target)
     \o generate_piece_moves(p, QUEEN, us, target)
     \o generate_king_moves(p, us, target)
     \o generate_castle_moves(p, "KING_SIDE")
     \o generate_castle_moves(p, "QUEEN_SIDE")

generate_non_evasions(p) ==
  LET us == side_to_move(p)
      target0 == pieces_of_color(p, opposite_color(us))
      target == target0 \cup empty_squares(p)
  IN    generate_piece_moves_pawn(p, "CAPTURE", us, target0)
     \o generate_piece_moves_pawn(p, "NON_CAPTURE", us, empty_squares(p))
     \o generate_piece_moves(p, KNIGHT, us, target)
     \o generate_piece_moves(p, BISHOP, us, target)
     \o generate_piece_moves(p, ROOK, us, target)
     \o generate_piece_moves(p, QUEEN, us, target)
     \o generate_king_moves(p, us, target)
     \o generate_castle_moves(p, "KING_SIDE")
     \o generate_castle_moves(p, "QUEEN_SIDE")

\* sliderAttacks from the attacks on the board as it stands: the king shields
\* the squares behind it
SliderAttacksOfBlocked(p, checksq, ksq) ==
  CASE type_of_piece_on(p, checksq) = BISHOP -> attacks_from(p, BISHOP, checksq)
    [] type_of_piece_on(p, checksq) = ROOK -> attacks_from(p, ROOK, checksq)
    [] type_of_piece_on(p, checksq) = QUEEN -> attacks_from(p, QUEEN, checksq)
    [] OTHER -> {}

\* sliderAttacks with the queen case left out of the switch
SliderAttacksOfNoQueen(p, checksq, ksq) ==
  CASE type_of_piece_on(p, checksq) = BISHOP -> BishopPseudoAttacks[checksq]
    [] type_of_piece_on(p, checksq) = ROOK -> RookPseudoAttacks[checksq]
    [] OTHER -> {}

\* what one checker adds to sliderAttacks in generate_evasions (the switch, lines 240-253)
SliderAttacksOf(p, checksq, ksq) ==
  CASE type_of_piece_on(p, checksq) = BISHOP -> BishopPseudoAttacks[checksq]
    [] type_of_piece_on(p, checksq) = ROOK -> RookPseudoAttacks[checksq]
    [] type_of_piece_on(p, checksq) = QUEEN ->
         IF ksq \in RookPseudoAttacks[checksq]
         THEN RookPseudoAttacks[checksq] \cup attacks_from(p, BISHOP, checksq)
         ELSE BishopPseudoAttacks[checksq] \cup attacks_from(p, ROOK, checksq)
    [] OTHER -> {}

\* sliderAttacks after the loop over the checkers (lines 232-254)
SliderAttacks(p, chk, ksq) == UNION {SliderAttacksOf(p, c, ksq) : c \in chk}

\* the king moves generate_evasions emits first (lines 256-259)
EvasionKingMoves(p, us, ksq, chk) ==
  SERIALIZE_MOVES(ksq, (attacks_from(p, KING, ksq) \ pieces_of_color(p, us)) \ SliderAttacks(p, chk, ksq))

\* the evasions of the other pieces (lines 269-273)
EvasionOthers(p, us, target) ==
     generate_piece_moves_pawn(p, "EVASION", us, target)
  \o generate_piece_moves(p, KNIGHT, us, target)
  \o generate_piece_moves(p, BISHOP, us, target)
  \o generate_piece_moves(p, ROOK, us, target)
  \o generate_piece_moves(p, QUEEN, us, target)

\* checksq after the loop: the last checker popped, the highest square
LastChecker(chk) == CHOOSE c \in chk : \A d \in chk : d <= c

\* evasions without the early return on a double check
EvasionsOfNoReturn(p, us, ksq, chk) ==
     EvasionKingMoves(p, us, ksq, chk)
  \o EvasionOthers(p, us, squares_between(LastChecker(chk), ksq) \cup chk)

EvasionsOf(p, us, ksq, chk) ==
     EvasionKingMoves(p, us, ksq, chk)
  \o (IF Cardinality(chk) > 1 THEN <<>>
      ELSE EvasionOthers(p, us, squares_between(LastChecker(chk), ksq) \cup chk))

generate_evasions(p) == EvasionsOf(p, side_to_move(p), king_square(p, side_to_move(p)), checkers(p))

\* a removal loop that steps on after overwriting an illegal entry, so the entry
\* moved in from the end is never tested
RECURSIVE RemoveIllegalSkip(_, _, _, _, _)
RemoveIllegalSkip(p, pinned, list, cur, last) ==
  IF cur >= last THEN SubSeq(list, 1, last)
  ELSE IF pl_move_is_legal(p, list[cur + 1], pinned)
       THEN RemoveIllegalSkip(p, pinned, list, cur + 1, last)
       ELSE RemoveIllegalSkip(p, pinned, [list EXCEPT ![cur + 1] = list[last]], cur + 1, last - 1)

\* the in-place removal loop of generate_moves (lines 295-299): cur and last are
\* offsets into list; an illegal entry is overwritten by the last one
RECURSIVE RemoveIllegal(_, _, _, _, _)
RemoveIllegal(p, pinned, list, cur, last) ==
  IF cur = last THEN SubSeq(list, 1, last)
  ELSE IF pl_move_is_legal(p, list[cur + 1], pinned)
       THEN RemoveIllegal(p, pinned, list, cur + 1, last)
       ELSE RemoveIllegal(p, pinned, [list EXCEPT ![cur + 1] = list[last]], cur, last - 1)

\* lines 291-301: the list as it is, or with the illegal moves removed
FilterMoves(p, pseudoLegal, list) ==
  IF pseudoLegal THEN list
  ELSE RemoveIllegal(p, pinned_pieces(p, side_to_move(p)), list, 0, Len(list))

generate_moves(p, pseudoLegal) ==
  FilterMoves(p, pseudoLegal, IF is_check(p) THEN generate_evasions(p) ELSE generate_non_evasions(p))

InList(m, mlist) == \E i \in 1 .. Len(mlist) : mlist[i] = m

\* move_is_legal(pos, m): the slow test
move_is_legal(p, m) ==
  IF InList(m, generate_moves(p, TRUE))
  THEN pl_move_is_legal(p, m, pinned_pieces(p, side_to_move(p)))
  ELSE FALSE

\* the pawn part of the fast test (lines 351-407): TRUE when the pawn move passes
PawnMoveOk(p, us, from, to) ==
  LET them == opposite_color(us)
      direction == to - from
  IN /\ (us = WHITE) = (direction > 0)
     /\ ~(square_rank(to) = RANK_8 \/ square_rank(to) = RANK_1)
     /\ CASE direction \in {DELTA_NW, DELTA_NE, DELTA_SW, DELTA_SE} ->
               color_of_piece_on(p, to) = them
          [] direction \in {DELTA_N, DELTA_S} -> square_is_empty(p, to)
          [] direction = DELTA_NN ->
               ~(\/ square_rank(to) # RANK_4
                 \/ ~square_is_empty(p, to)
                 \/ ~square_is_empty(p, from + DELTA_N))
          [] direction = DELTA_SS ->
               ~(\/ square_rank(to) # RANK_5
                 \/ ~square_is_empty(p, to)
                 \/ ~square_is_empty(p, from + DELTA_S))
          [] OTHER -> FALSE

\* move_is_legal(pos, m, pinned): the fast test
move_is_legal_pinned(p, m, pinned) ==
  LET us == side_to_move(p)
      from == move_from(m)
      to == move_to(m)
      pc == piece_on(p, from)
  IN IF move_is_special(m) THEN move_is_legal(p, m)
     ELSE IF color_of_piece(pc) # us THEN FALSE
     ELSE IF color_of_piece_on(p, to) = us THEN FALSE
     ELSE IF type_of_piece(pc) = PAWN /\ ~PawnMoveOk(p, us, from, to) THEN FALSE
     ELSE IF type_of_piece(pc) # PAWN /\ to \notin attacks_from_piece(p, pc, from) THEN FALSE
     ELSE IF is_check(p) THEN pl_move_is_evasion(p, m, pinned) ELSE pl_move_is_legal(p, m, pinned)

(***************************************************************************)
(* Non-capture checks                                                      *)
(***************************************************************************)
generate_discovered_checks(p, Piece, from) ==
  LET b == attacks_from(p, Piece, from) \cap empty_squares(p)
      ksq == king_square(p, opposite_color(side_to_move(p)))
  IN SERIALIZE_MOVES(from, IF Piece = KING THEN b \ QueenPseudoAttacks[ksq] ELSE b)

\* generate_direct_checks<Piece> for knights, bishops, rooks and queens
generate_direct_checks(p, Piece, us, dc, ksq) ==
  LET sqs == piece_list(p, us, Piece)
      checkSqs == attacks_from(p, Piece, ksq) \cap empty_squares(p)
      Skip(from) ==
        \/ (Piece = QUEEN /\ QueenPseudoAttacks[from] \cap checkSqs = {})
        \/ (Piece = ROOK /\ RookPseudoAttacks[from] \cap checkSqs = {})
        \/ (Piece = BISHOP /\ BishopPseudoAttacks[from] \cap checkSqs = {})
        \/ (dc # {} /\ from \in dc)
      acc[i \in 0 .. Len(sqs)] ==
        IF i = 0 THEN <<>>
        ELSE IF Skip(sqs[i]) THEN acc[i - 1]
        ELSE acc[i - 1] \o SERIALIZE_MOVES(sqs[i], attacks_from(p, Piece, sqs[i]) \cap checkSqs)
  IN acc[Len(sqs)]

\* generate_direct_checks<PAWN>
generate_direct_checks_pawn(p, us, dc, ksq) == generate_pawn_moves(p, us, "CHECK", dc, ksq)

generate_non_capture_checks(p) ==
  LET us == side_to_move(p)
      ksq == king_square(p, opposite_color(us))
      dc == discovered_check_candidates(p, us)
      froms == SerializeBB(dc)
      disc[i \in 0 .. Len(froms)] ==
        IF i = 0 THEN <<>>
        ELSE disc[i - 1] \o
             (IF type_of_piece_on(p, froms[i]) \in {KNIGHT, BISHOP, ROOK, KING}
              THEN generate_discovered_checks(p, type_of_piece_on(p, froms[i]), froms[i])
              ELSE <<>>)
  IN    disc[Len(froms)]
     \o generate_direct_checks_pawn(p, us, dc, ksq)
     \o generate_direct_checks(p, KNIGHT, us, dc, ksq)
     \o generate_direct_checks(p, BISHOP, us, dc, ksq)
     \o generate_direct_checks(p, ROOK, us, dc, ksq)
     \o generate_direct_checks(p, QUEEN, us, dc, ksq)

(***************************************************************************)
(* Positions the generators are run on                                     *)
(***************************************************************************)
\* the board holding exactly the placements <<square, piece>>
BoardOf(placements) ==
  [s \in Squares |-> IF \E x \in placements : x[1] = s
                     THEN (CHOOSE x \in placements : x[1] = s)[2]
                     ELSE EMPTY]

StdKR == [c \in {WHITE, BLACK} |-> relative_square(c, 7)]
StdQR == [c \in {WHITE, BLACK} |-> relative_square(c, 0)]

PositionOf(placements, stm) ==
  [board |-> BoardOf(placements), sideToMove |-> stm, epSquare |-> SQ_NONE,
   castleK |-> {}, castleQ |-> {}, initialKR |-> StdKR, initialQR |-> StdQR]

\* the position with colours swapped and ranks mirrored
FlipSq(s) == IF s = SQ_NONE THEN SQ_NONE ELSE make_square(square_file(s), 7 - square_rank(s))
FlipPiece(pc) == IF pc = EMPTY THEN EMPTY ELSE <<opposite_color(pc[1]), pc[2]>>
Flip(p) ==
  [board |-> [s \in Squares |-> FlipPiece(p.board[FlipSq(s)])],
   sideToMove |-> opposite_color(p.sideToMove),
   epSquare |-> FlipSq(p.epSquare),
   castleK |-> {opposite_color(c) : c \in p.castleK},
   castleQ |-> {opposite_color(c) : c \in p.castleQ},
   initialKR |-> [c \in {WHITE, BLACK} |-> FlipSq(p.initialKR[opposite_color(c)])],
   initialQR |-> [c \in {WHITE, BLACK} |-> FlipSq(p.initialQR[opposite_color(c)])]]

BackRank == <<ROOK, KNIGHT, BISHOP, QUEEN, KING, BISHOP, KNIGHT, ROOK>>
StartPlacements ==
       {<<f, <<WHITE, BackRank[f + 1]>>>> : f \in 0 .. 7}
  \cup {<<8 + f, <<WHITE, PAWN>>>> : f \in 0 .. 7}
  \cup {<<48 + f, <<BLACK, PAWN>>>> : f \in 0 .. 7}
  \cup {<<56 + f, <<BLACK, BackRank[f + 1]>>>> : f \in 0 .. 7}
\* the standard initial position, all castling rights held
StartPosition(stm) ==
  [PositionOf(StartPlacements, stm) EXCEPT !.castleK = {WHITE, BLACK}, !.castleQ = {WHITE, BLACK}]
StartPositions == {StartPosition(WHITE), StartPosition(BLACK)}

\* a lone king of colour c on the edge of file f, the enemy queen at the far end
LoneKingPosition(c, f, edge) ==
  PositionOf({<<make_square(f, edge), <<c, KING>>>>,
              <<make_square(f, 7 - edge), <<opposite_color(c), QUEEN>>>>}, c)
LoneKingPositions ==
  {LoneKingPosition(c, f, edge) : c \in {WHITE, BLACK}, f \in 0 .. 7, edge \in {RANK_1, RANK_8}}

(***************************************************************************)
(* Transposition table entry (tt.h).  A 32-bit word is a function from bit *)
(* index 0..31 to 0/1; integers stay below 2^31.                           *)
(***************************************************************************)
BitIdx == 0 .. 31
Pow2(n) == IF n = 0 THEN 1 ELSE 2 ^ n

\* the uint32_t holding the int n (two's complement, so a negative n sets bit 31)
Word(n) ==
  [i \in BitIdx |-> IF i = 31 THEN (IF n < 0 THEN 1 ELSE 0)
                    ELSE ((IF n < 0 THEN n + 1073741824 + 1073741824 ELSE n) \div Pow2(i)) % 2]
ShiftLeft(w, k) == [i \in BitIdx |-> IF i >= k THEN w[i - k] ELSE 0]
ShiftRight(w, k) == [i \in BitIdx |-> IF i + k <= 31 THEN w[i + k] ELSE 0]
BitOr(a, b) == [i \in BitIdx |-> IF a[i] = 1 \/ b[i] = 1 THEN 1 ELSE 0]
BitAnd(a, b) == [i \in BitIdx |-> IF a[i] = 1 /\ b[i] = 1 THEN 1 ELSE 0]
\* the value of a word whose bit 31 is clear
ToInt(w) ==
    w[0] * 1 + w[1] * 2 + w[2] * 4 + w[3] * 8
  + w[4] * 16 + w[5] * 32 + w[6] * 64 + w[7] * 128
  + w[8] * 256 + w[9] * 512 + w[10] * 1024 + w[11] * 2048
  + w[12] * 4096 + w[13] * 8192 + w[14] * 16384 + w[15] * 32768
  + w[16] * 65536 + w[17] * 131072 + w[18] * 262144 + w[19] * 524288
  + w[20] * 1048576 + w[21] * 2097152 + w[22] * 4194304 + w[23] * 8388608
  + w[24] * 16777216 + w[25] * 33554432 + w[26] * 67108864 + w[27] * 134217728
  + w[28] * 268435456 + w[29] * 536870912 + w[30] * 1073741824

Mask17 == Word(131071)
Mask2 == Word(3)

\* int16_t(x): the low 16 bits of x, read as a signed number
Int16(x) == ((x + 32768) % 65536) - 32768

ZeroEntry ==
  [key32 |-> 0, data |-> Word(0), value16 |-> 0, depth16 |-> 0,
   staticValue |-> 0, staticValueMargin |-> 0]

\* a save that shifts the value type one bit short
save_type_shift20(e, k, v, t, d, m, g, statV, kd) ==
  [key32 |-> k,
   data |-> BitOr(BitOr(BitAnd(Word(m), Mask17), ShiftLeft(Word(t), 20)), ShiftLeft(Word(g), 23)),
   value16 |-> Int16(v),
   depth16 |-> Int16(d),
   staticValue |-> Int16(statV),
   staticValueMargin |-> Int16(kd)]

\* a save with the value and the depth stored in each other's field
save_value_depth_swapped(e, k, v, t, d, m, g, statV, kd) ==
  [key32 |-> k,
   data |-> BitOr(BitOr(BitAnd(Word(m), Mask17), ShiftLeft(Word(t), 21)), ShiftLeft(Word(g), 23)),
   value16 |-> Int16(d),
   depth16 |-> Int16(v),
   staticValue |-> Int16(statV),
   staticValueMargin |-> Int16(kd)]

\* a save that stores the value as passed, without the cast to int16_t
save_uncast(e, k, v, t, d, m, g, statV, kd) ==
  [key32 |-> k,
   data |-> BitOr(BitOr(BitAnd(Word(m), Mask17), ShiftLeft(Word(t), 21)), ShiftLeft(Word(g), 23)),
   value16 |-> v,
   depth16 |-> Int16(d),
   staticValue |-> Int16(statV),
   staticValueMargin |-> Int16(kd)]

\* TTEntry::save: the entry after the call
save(e, k, v, t, d, m, g, statV, kd) ==
  [key32 |-> k,
   data |-> BitOr(BitOr(BitAnd(Word(m), Mask17), ShiftLeft(Word(t), 21)), ShiftLeft(Word(g), 23)),
   value16 |-> Int16(v),
   depth16 |-> Int16(d),
   staticValue |-> Int16(statV),
   staticValueMargin |-> Int16(kd)]

key(e) == e.key32
depth(e) == e.depth16
move(e) == ToInt(BitAnd(e.data, Mask17))
value(e) == e.value16
type(e) == ToInt(BitAnd(ShiftRight(e.data, 21), Mask2))
\* TTEntry::generation()
tte_generation(e) == ToInt(ShiftRight(e.data, 23))
static_value(e) == e.staticValue
static_value_margin(e) == e.staticValueMargin

\* a set_generation that ORs the new stamp onto the word instead of rebuilding it
set_generation_or(e, g) ==
  [e EXCEPT !.data = BitOr(e.data, ShiftLeft(Word(g), 23))]

\* a set_generation that puts the value type back one bit short
set_generation_type_shift20(e, g) ==
  [e EXCEPT !.data = BitOr(BitOr(Word(move(e)), ShiftLeft(Word(type(e)), 20)), ShiftLeft(Word(g), 23))]

\* TTEntry::set_generation: the entry after the call
set_generation(e, g) ==
  [e EXCEPT !.data = BitOr(BitOr(Word(move(e)), ShiftLeft(Word(type(e)), 21)), ShiftLeft(Word(g), 23))]

\* the fields of a TTEntry, each written by one store instruction
Fields == {"key32", "data", "value16", "depth16", "staticValue", "staticValueMargin"}

\* a right-hand side that puts the value type back one bit short
set_generation_word_shift20(rdMove, rdType, g) ==
  BitOr(BitOr(BitAnd(rdMove, Mask17), ShiftLeft(BitAnd(ShiftRight(rdType, 21), Mask2), 20)),
        ShiftLeft(Word(g), 23))

\* the right-hand side of set_generation, evaluated step by step: move() read from
\* the data word as it was at one moment, type() from the data word as it was at a
\* later one
set_generation_word(rdMove, rdType, g) ==
  BitOr(BitOr(BitAnd(rdMove, Mask17), ShiftLeft(BitAnd(ShiftRight(rdType, 21), Mask2), 21)),
        ShiftLeft(Word(g), 23))

(***************************************************************************)
(* The clustered table (tt.h).  A 64-bit Key is the pair of its halves     *)
(* [hi, lo]; the table is a function from cluster index to its slots.      *)
(* The bodies of store, retrieve and new_search are in tt.cpp, which is    *)
(* not among the sources: they follow section 4.9 of the specification.    *)
(***************************************************************************)
ClusterSize == 4
\* set_size leaves a power-of-two number of clusters
LogSize == 1
TableSize == Pow2(LogSize)
Slots == 1 .. ClusterSize
ClearedTable == [i \in 0 .. TableSize - 1 |-> [s \in Slots |-> ZeroEntry]]

\* an index taken with the cluster count itself as the mask
first_entry_mask_size(posKey, size) == ToInt(BitAnd(Word(posKey.lo), Word(size)))

\* uint32_t(posKey) & (size - 1), for a table of 'size' clusters
first_entry_sized(posKey, size) == ToInt(BitAnd(Word(posKey.lo), Word(size - 1)))

\* TranspositionTable::first_entry: the index of the key's cluster
first_entry(posKey) == first_entry_sized(posKey, TableSize)

\* TranspositionTable::refresh on the entry in slot s of cluster i
refresh(tbl, g, i, s) == [tbl EXCEPT ![i][s] = set_generation(@, g)]

\* the truncated key kept in an entry
posKey32(posKey) == posKey.hi

\* the first slot of the cluster whose key is k32, 0 when there is none
RECURSIVE MatchSlot(_, _, _)
MatchSlot(cluster, k32, s) ==
  IF s > ClusterSize THEN 0
  ELSE IF key(cluster[s]) = k32 THEN s
  ELSE MatchSlot(cluster, k32, s + 1)

\* TranspositionTable::retrieve: the slot of the match in the key's cluster, 0 for
\* the no-match result
retrieve(tbl, posKey) == MatchSlot(tbl[first_entry(posKey)], posKey32(posKey), 1)

\* how many searches ago the entry was stamped, the counter wrapping at 256
Age(g, e) == (g - tte_generation(e)) % 256
\* a is a better victim than b: older, or as old and shallower
BetterVictim(g, a, b) ==
  \/ Age(g, a) > Age(g, b)
  \/ (Age(g, a) = Age(g, b) /\ depth(a) < depth(b))
\* the slot to replace: the oldest generation, then the shallowest depth; the scan
\* keeps the earlier slot when two are alike
RECURSIVE VictimFrom(_, _, _, _)
VictimFrom(cluster, g, best, s) ==
  IF s > ClusterSize THEN best
  ELSE VictimFrom(cluster, g, IF BetterVictim(g, cluster[s], cluster[best]) THEN s ELSE best, s + 1)
ReplaceVictim(cluster, g) == VictimFrom(cluster, g, 1, 2)

\* the slot store writes: the matching one, else the victim
PickSlot(cluster, g, hit) == IF hit # 0 THEN hit ELSE ReplaceVictim(cluster, g)
StoreSlot(tbl, g, posKey) ==
  PickSlot(tbl[first_entry(posKey)], g, MatchSlot(tbl[first_entry(posKey)], posKey32(posKey), 1))

\* TranspositionTable::store: the table after the call
store(tbl, g, posKey, v, t, d, m, statV, kingD) ==
  [tbl EXCEPT ![first_entry(posKey)][StoreSlot(tbl, g, posKey)] =
     save(@, posKey32(posKey), v, t, d, m, g, statV, kingD)]

\* a counter one bit wider than the declared one
Uint9(x) == x % 512

\* the value a uint8_t holds after x is assigned to it
Uint8(x) == x % 256

\* TranspositionTable::new_search: the generation counter after the call
new_search(g) == Uint8(g + 1)

(***************************************************************************)
(* Records of the last call on an entry and on the table, and the history  *)
(* of the table's slots.                                                   *)
(***************************************************************************)
NoArgs == [key |-> [hi |-> 0, lo |-> 0], v |-> 0, t |-> 0, d |-> 0, m |-> 0, statV |-> 0, kingD |-> 0]
NoSave == [op |-> "none", k |-> 0, v |-> 0, t |-> 0, d |-> 0, m |-> 0, g |-> 0, statV |-> 0, kd |-> 0]

\* two threads on one entry: the fields a save in progress has still to write, where
\* a set_generation in progress stands, the data words it has read for move() and
\* type(), the stamp it was given, and the entry as it was before either began
NoThreads ==
  [pend |-> {}, sg |-> "idle", rdMove |-> Word(0), rdType |-> Word(0), g |-> 0, old |-> ZeroEntry]

\* per slot: whether a store has written it, and the truncated key, the depth and
\* the generation stamp last given to it by store or refresh
NoShadow == [used |-> FALSE, hi |-> 0, stamp |-> 0, depth |-> 0]
ClearedShadow == [i \in 0 .. TableSize - 1 |-> [s \in Slots |-> NoShadow]]

\* the last table call: its arguments, the cluster it went to and the slot it wrote
\* or returned, the generation it stamped with or found, the cluster as it was before,
\* the call before it, the number of calls
NoOp ==
  [op |-> "none", args |-> NoArgs, idx |-> 0, slot |-> 0, g |-> 0,
   before |-> ClearedTable[0], shBefore |-> ClearedShadow[0],
   prevOp |-> "none", prevArgs |-> NoArgs, n |-> 0]

\* the table, its counter and the slot history as one value
StoreT(T, a) ==
  [entries |-> store(T.entries, T.generation, a.key, a.v, a.t, a.d, a.m, a.statV, a.kingD),
   generation |-> T.generation,
   shadow |-> [T.shadow EXCEPT ![first_entry(a.key)][StoreSlot(T.entries, T.generation, a.key)] =
                 [used |-> TRUE, hi |-> posKey32(a.key), stamp |-> T.generation, depth |-> a.d]]]
NewSearchT(T) == [T EXCEPT !.generation = new_search(@)]
RefreshT(T, i, s) ==
  [entries |-> refresh(T.entries, T.generation, i, s),
   generation |-> T.generation,
   shadow |-> [T.shadow EXCEPT ![i][s].stamp = T.generation]]
\* n calls of new_search in a row
NewSearches(T, n) == [T EXCEPT !.generation = (@ + n) % 256]

\* the first n entries of a list, as a set
Prefix(list, n) == {list[i] : i \in 1 .. Min(n, Len(list))}

\* base, and base with one or two more placements from pool on free, distinct squares
SqsOf(placements) == {x[1] : x \in placements}
WithExtras(base, pool) ==
       {base}
  \cup {base \cup {x} : x \in {y \in pool : y[1] \notin SqsOf(base)}}
  \cup {base \cup {xy[1], xy[2]} :
          xy \in {z \in pool \X pool : /\ z[1][1] < z[2][1]
                                      /\ z[1][1] \notin SqsOf(base)
                                      /\ z[2][1] \notin SqsOf(base)}}

\* --- positions with the white king attacked (or not) by up to two black pieces,
\*     with or without a white piece that can block, capture or be pinned
NumAttackerSquares == 5
AttackerTypes == {QUEEN, ROOK, BISHOP, KNIGHT}
DefenderTypes == {KNIGHT, ROOK}
\* king d4: d8 d5 h4 g7 a1 f5 b3 ; defenders on d6 f6 c2
\* king e1: e8 e2 h4 a5 h1 f3 d3 ; defenders on e4 g3 c2
CheckSetups ==
  {[ksq |-> 27, attackers |-> <<59, 35, 31, 54, 0, 37, 17>>, defenders |-> {43, 45, 10}],
   [ksq |-> 4, attackers |-> <<60, 12, 31, 32, 7, 21, 19>>, defenders |-> {28, 22, 10}]}
CheckPlacements(su) ==
  UNION {WithExtras(base, {<<sq, <<BLACK, t>>>> :
                             sq \in Prefix(su.attackers, NumAttackerSquares), t \in AttackerTypes}) :
           base \in    {{<<su.ksq, <<WHITE, KING>>>>, <<63, <<BLACK, KING>>>>}}
                  \cup {{<<su.ksq, <<WHITE, KING>>>>, <<63, <<BLACK, KING>>>>, <<d, <<WHITE, t>>>>} :
                          d \in su.defenders, t \in DefenderTypes}}
CheckPositions == {PositionOf(pl, WHITE) : pl \in UNION {CheckPlacements(su) : su \in CheckSetups}}

\* --- positions around the pawn pushes: a white pawn, up to two obstacles or targets,
\*     the black king where a push checks it or far away; and the same for black
NumObstacleSquares == 5
\* d3 d4 c3 e3 e4 c4
ObstacleSquares == <<19, 27, 18, 20, 28, 26>>
PawnPool ==
       {<<sq, <<c, KNIGHT>>>> : sq \in Prefix(ObstacleSquares, NumObstacleSquares), c \in {WHITE, BLACK}}
  \cup {<<31, <<BLACK, ROOK>>>>}
PawnPlacements ==
  UNION {WithExtras({<<24, <<WHITE, KING>>>>, <<bk, <<BLACK, KING>>>>, <<pw, <<WHITE, PAWN>>>>}, PawnPool) :
           bk \in {63, 36}, pw \in {11, 12, 19, 51}}
WhitePawnPositions == {PositionOf(pl, WHITE) : pl \in PawnPlacements}
PawnPositions == WhitePawnPositions \cup {Flip(p) : p \in WhitePawnPositions}

\* --- positions around promotion: a pawn on its seventh rank, pieces on the
\*     promotion rank to capture, kings a promoted knight can or cannot attack,
\*     and a rook on a8 that checks the king along the a-file or the eighth rank
PromotionPool ==
       {<<sq, <<BLACK, ROOK>>>> : sq \in {58, 60, 56}}
  \cup {<<sq, <<BLACK, KNIGHT>>>> : sq \in {58, 59}}
  \cup {<<59, <<WHITE, KNIGHT>>>>}
PromotionPlacements ==
  UNION {WithExtras({<<wk, <<WHITE, KING>>>>, <<bk, <<BLACK, KING>>>>, <<pw, <<WHITE, PAWN>>>>},
                    PromotionPool) :
           wk \in {24, 63}, bk \in {42, 53, 39}, pw \in {51, 49}}
WhitePromotionPositions == {PositionOf(pl, WHITE) : pl \in PromotionPlacements}
PromotionPositions == WhitePromotionPositions \cup {Flip(p) : p \in WhitePromotionPositions}

\* --- positions with a pawn on an edge file: enemy knights on the squares it
\*     attacks (g5 for h4, b5 for a4) and on the squares nine and seven further
\*     in index that lie across the board edge (a6 for h4, h4 for a4)
EdgePawnPool == {<<sq, <<BLACK, KNIGHT>>>> : sq \in {40, 38, 33, 31}}
EdgePawnPlacements ==
  UNION {WithExtras({<<4, <<WHITE, KING>>>>, <<60, <<BLACK, KING>>>>, <<pw, <<WHITE, PAWN>>>>},
                    EdgePawnPool) :
           pw \in {31, 24}}
WhiteEdgePawnPositions == {PositionOf(pl, WHITE) : pl \in EdgePawnPlacements}
EdgePawnPositions == WhiteEdgePawnPositions \cup {Flip(p) : p \in WhiteEdgePawnPositions}

\* --- positions around castling: king and rooks on their first rank (also the
\*     variant-board squares), castling rights held, up to one enemy piece and one more piece
NumCastleSquares == 5
\* f8 d8 g8 c8 a1 e3 b8 h3
CastleAttackSquares == <<61, 59, 62, 58, 0, 20, 57, 23>>
CastleSetups ==
  {[ksq |-> 4, kr |-> 7, qr |-> 0], [ksq |-> 4, kr |-> 7, qr |-> 1],
   [ksq |-> 6, kr |-> 7, qr |-> 0], [ksq |-> 1, kr |-> 6, qr |-> 0]}
CastlePool ==
       {<<sq, <<BLACK, t>>>> : sq \in Prefix(CastleAttackSquares, NumCastleSquares), t \in {ROOK, BISHOP, KNIGHT}}
  \cup {<<sq, <<WHITE, KNIGHT>>>> : sq \in {5, 3}}
CastlePosition(su, pl) ==
  [PositionOf(pl, WHITE) EXCEPT !.castleK = {WHITE}, !.castleQ = {WHITE},
                                !.initialKR = [c \in {WHITE, BLACK} |-> relative_square(c, su.kr)],
                                !.initialQR = [c \in {WHITE, BLACK} |-> relative_square(c, su.qr)]]
WhiteCastlePositions ==
  UNION {{CastlePosition(su, pl) :
            pl \in WithExtras({<<su.ksq, <<WHITE, KING>>>>, <<su.kr, <<WHITE, ROOK>>>>,
                               <<su.qr, <<WHITE, ROOK>>>>, <<60, <<BLACK, KING>>>>}, CastlePool)} :
           su \in CastleSetups}
CastlePositions == WhiteCastlePositions \cup {Flip(p) : p \in WhiteCastlePositions}

(***************************************************************************)
(* The generator as a state machine: a position snapshot is fixed, each    *)
(* step is one call and gen records the call and what it returned.         *)
(***************************************************************************)
MOVE_NONE == make_move(0, 0)
NoCall == [op |-> "none", cat |-> "-", m |-> MOVE_NONE, mlist |-> <<>>, ok |-> FALSE]
ListCall(op, cat, mlist) == [op |-> op, cat |-> cat, m |-> MOVE_NONE, mlist |-> mlist, ok |-> FALSE]
TestCall(op, m, ok) == [op |-> op, cat |-> "-", m |-> m, mlist |-> <<>>, ok |-> ok]

\* the table side at rest (defined with the table, below)
TTIdle ==
  /\ tte = ZeroEntry
  /\ call = NoSave
  /\ entries = ClearedTable
  /\ generation = 0
  /\ ttOp = NoOp
  /\ shadow = ClearedShadow
  /\ thr = NoThreads

TTVars == <<tte, call, entries, generation, ttOp, shadow, thr>>

GenCaptures ==
  /\ gen = NoCall
  /\ ~is_check(pos)
  /\ gen' = ListCall("generate_captures", "-", generate_captures(pos))
  /\ UNCHANGED <<pos, TTVars>>

GenNoncaptures ==
  /\ gen = NoCall
  /\ ~is_check(pos)
  /\ gen' = ListCall("generate_noncaptures", "-", generate_noncaptures(pos))
  /\ UNCHANGED <<pos, TTVars>>

GenNonEvasions ==
  /\ gen = NoCall
  /\ ~is_check(pos)
  /\ gen' = ListCall("generate_non_evasions", "-", generate_non_evasions(pos))
  /\ UNCHANGED <<pos, TTVars>>

GenNonCaptureChecks ==
  /\ gen = NoCall
  /\ ~is_check(pos)
  /\ has_king(pos, opposite_color(side_to_move(pos)))
  /\ gen' = ListCall("generate_non_capture_checks", "-", generate_non_capture_checks(pos))
  /\ UNCHANGED <<pos, TTVars>>

GenEvasions ==
  /\ gen = NoCall
  /\ is_check(pos)
  /\ gen' = ListCall("generate_evasions", "-", generate_evasions(pos))
  /\ UNCHANGED <<pos, TTVars>>

GenMoves ==
  \E pseudoLegal \in BOOLEAN :
    /\ gen = NoCall
    /\ gen' = ListCall("generate_moves", IF pseudoLegal THEN "pseudoLegal" ELSE "legal",
                       generate_moves(pos, pseudoLegal))
    /\ UNCHANGED <<pos, TTVars>>

\* generate_castle_moves<Side>, as generate_noncaptures and generate_non_evasions call it
GenCastle ==
  \E Side \in {"KING_SIDE", "QUEEN_SIDE"} :
    /\ gen = NoCall
    /\ ~is_check(pos)
    /\ gen' = ListCall("generate_castle_moves", Side, generate_castle_moves(pos, Side))
    /\ UNCHANGED <<pos, TTVars>>

\* generate_pawn_moves<Us, Type> with the target and king square its callers pass
PawnTarget(p, Type) ==
  LET us == side_to_move(p)
      chk == checkers(p)
  IN CASE Type = "CAPTURE" -> pieces_of_color(p, opposite_color(us))
       [] Type = "NON_CAPTURE" -> empty_squares(p)
       [] Type = "CHECK" -> discovered_check_candidates(p, us)
       [] Type = "EVASION" -> squares_between(LastChecker(chk), king_square(p, us)) \cup chk
PawnKsq(p, Type) ==
  IF Type = "CHECK" THEN king_square(p, opposite_color(side_to_move(p))) ELSE SQ_NONE

GenPawnMoves ==
  \E Type \in {"CAPTURE", "NON_CAPTURE", "CHECK", "EVASION"} :
    /\ gen = NoCall
    /\ IF Type = "EVASION" THEN Cardinality(checkers(pos)) = 1 ELSE ~is_check(pos)
    /\ Type = "CHECK" => has_king(pos, opposite_color(side_to_move(pos)))
    /\ gen' = ListCall("generate_pawn_moves", Type,
                       generate_pawn_moves(pos, side_to_move(pos), Type,
                                           PawnTarget(pos, Type), PawnKsq(pos, Type)))
    /\ UNCHANGED <<pos, TTVars>>

\* the moves the legality tests are asked about: from a piece, by a pawn step
PawnSteps == {DELTA_N, DELTA_S, DELTA_NN, DELTA_SS, DELTA_NE, DELTA_NW, DELTA_SE, DELTA_SW}
TestMoves(p) ==
  UNION {{make_move(from, from + d) : d \in {x \in PawnSteps : from + x \in Squares}} :
           from \in pieces_of_type(p, PAWN)}

MoveIsLegalFast ==
  \E m \in TestMoves(pos) :
    /\ gen = NoCall
    /\ gen' = TestCall("move_is_legal_pinned", m,
                       move_is_legal_pinned(pos, m, pinned_pieces(pos, side_to_move(pos))))
    /\ UNCHANGED <<pos, TTVars>>

MoveIsLegalSlow ==
  \E m \in TestMoves(pos) :
    /\ gen = NoCall
    /\ gen' = TestCall("move_is_legal", m, move_is_legal(pos, m))
    /\ UNCHANGED <<pos, TTVars>>

\* the caller has consumed the returned list (or result): the buffer is free again
Consume ==
  /\ gen # NoCall
  /\ gen' = NoCall
  /\ UNCHANGED <<pos, TTVars>>

\* a position the game can be in: the side that is not to move is not in check
\* and the kings do not touch
position_is_ok(p) ==
  /\ has_king(p, p.sideToMove)
  /\ has_king(p, opposite_color(p.sideToMove)) =>
       /\ king_square(p, opposite_color(p.sideToMove)) \notin KingStepAttacks[king_square(p, p.sideToMove)]
       /\ attackers_to(p, king_square(p, opposite_color(p.sideToMove)))
            \cap pieces_of_color(p, p.sideToMove) = {}

Positions ==
  {p \in StartPositions \cup LoneKingPositions \cup CheckPositions \cup PawnPositions
         \cup PromotionPositions \cup EdgePawnPositions \cup CastlePositions :
     position_is_ok(p)}

Init ==
  /\ pos \in Positions
  /\ gen = NoCall
  /\ TTIdle

Next ==
  \/ GenCaptures
  \/ GenNoncaptures
  \/ GenNonEvasions
  \/ GenNonCaptureChecks
  \/ GenEvasions
  \/ GenMoves
  \/ GenCastle
  \/ GenPawnMoves
  \/ MoveIsLegalFast
  \/ MoveIsLegalSlow
  \/ Consume

Spec == Init /\ [][Next]_vars

(***************************************************************************)
(* One entry: save and set_generation applied to it with arguments in and  *)
(* out of the fields' ranges.                                              *)
(***************************************************************************)
SaveKeys == {2147483647}
SaveValues == {-32768, 40000}
SaveTypes == 0 .. 3
SaveDepths == {32767, -32769}
SaveMoves == {131071, 131149}
SaveGenerations == {1, 255}
SaveStatics == {-1, 70000}
SaveMargins == {5, -40000}

MovegenIdle == pos = StartPosition(WHITE) /\ gen = NoCall
TableIdle == entries = ClearedTable /\ generation = 0 /\ ttOp = NoOp /\ shadow = ClearedShadow

Save ==
  \E k \in SaveKeys, v \in SaveValues, t \in SaveTypes, d \in SaveDepths, m \in SaveMoves,
     g \in SaveGenerations, statV \in SaveStatics, kd \in SaveMargins :
    /\ tte' = save(tte, k, v, t, d, m, g, statV, kd)
    /\ call' = [op |-> "save", k |-> k, v |-> v, t |-> t, d |-> d, m |-> m, g |-> g,
                statV |-> statV, kd |-> kd]
    /\ UNCHANGED <<pos, gen, thr, entries, generation, ttOp, shadow>>

SetGeneration ==
  \E g \in SaveGenerations \cup {0} :
    /\ call.op = "save"
    /\ tte' = set_generation(tte, g)
    /\ call' = [call EXCEPT !.op = "set_generation", !.g = g]
    /\ UNCHANGED <<pos, gen, thr, entries, generation, ttOp, shadow>>

InitEntry == MovegenIdle /\ TableIdle /\ tte = ZeroEntry /\ call = NoSave /\ thr = NoThreads
NextEntry == Save \/ SetGeneration
SpecEntry == InitEntry /\ [][NextEntry]_vars

(***************************************************************************)
(* The table: store, retrieve, refresh and new_search in any order, from a *)
(* cleared table or from one whose first cluster earlier stores, with new  *)
(* searches between them, have filled.                                     *)
(***************************************************************************)
MaxOps == 2

FillArgs(h, d) ==
  [key |-> [hi |-> h, lo |-> 0], v |-> 10 * h, t |-> h % 4, d |-> d, m |-> 1000 + h,
   statV |-> 0 - h, kingD |-> h]
FillDepths == {<<6, 2, 4, 4>>, <<2, 6, 6, 2>>, <<4, 4, 4, 4>>}
\* the stores a new search follows
FillGaps == {{}, {2, 4}, {1, 3}}
\* the searches started before the first store
StartSearches == {0, 254}

RECURSIVE Fill(_, _, _, _)
Fill(T, dp, gaps, h) ==
  IF h > ClusterSize THEN T
  ELSE Fill(IF h \in gaps THEN NewSearchT(StoreT(T, FillArgs(h, dp[h])))
            ELSE StoreT(T, FillArgs(h, dp[h])),
            dp, gaps, h + 1)

ClearedT == [entries |-> ClearedTable, generation |-> 0, shadow |-> ClearedShadow]
FilledTables ==
       {NewSearches(ClearedT, n) : n \in StartSearches}
  \cup {Fill(NewSearches(ClearedT, n), dp, gaps, 1) :
          n \in StartSearches, dp \in FillDepths, gaps \in FillGaps}

StoreArgs ==
  {[key |-> [hi |-> 2, lo |-> 0], v |-> 111, t |-> 1, d |-> 8, m |-> 77, statV |-> -3, kingD |-> 9],
   [key |-> [hi |-> 5, lo |-> 0], v |-> -200, t |-> 2, d |-> 3, m |-> 131071, statV |-> 30, kingD |-> -1],
   [key |-> [hi |-> 1, lo |-> 1], v |-> 32767, t |-> 3, d |-> 4, m |-> 0, statV |-> -32768, kingD |-> 3],
   [key |-> [hi |-> 5, lo |-> 2], v |-> -1, t |-> 2, d |-> 2, m |-> 555, statV |-> 0, kingD |-> 32767]}
RetrieveKeys ==
  {a.key : a \in StoreArgs} \cup {[hi |-> 1, lo |-> 0], [hi |-> 7, lo |-> 0]}

TableOp(op, args, i, s, g) ==
  [op |-> op, args |-> args, idx |-> i, slot |-> s, g |-> g,
   before |-> entries[i], shBefore |-> shadow[i],
   prevOp |-> ttOp.op, prevArgs |-> ttOp.args, n |-> ttOp.n + 1]
CurrentT == [entries |-> entries, generation |-> generation, shadow |-> shadow]

Store ==
  \E a \in StoreArgs :
    /\ ttOp.n < MaxOps
    /\ entries' = StoreT(CurrentT, a).entries
    /\ shadow' = StoreT(CurrentT, a).shadow
    /\ ttOp' = TableOp("store", a, first_entry(a.key), StoreSlot(entries, generation, a.key), generation)
    /\ UNCHANGED <<pos, gen, thr, tte, call, generation>>

Retrieve ==
  \E k \in RetrieveKeys :
    /\ ttOp.n < MaxOps
    /\ ttOp' = TableOp("retrieve", [NoArgs EXCEPT !.key = k], first_entry(k), retrieve(entries, k), generation)
    /\ UNCHANGED <<pos, gen, thr, tte, call, entries, generation, shadow>>

\* refresh of an entry a retrieve has handed out: any slot a store has written
Refresh ==
  \E i \in 0 .. TableSize - 1, s \in Slots :
    /\ ttOp.n < MaxOps
    /\ shadow[i][s].used
    /\ entries' = RefreshT(CurrentT, i, s).entries
    /\ shadow' = RefreshT(CurrentT, i, s).shadow
    /\ ttOp' = TableOp("refresh", NoArgs, i, s, generation)
    /\ UNCHANGED <<pos, gen, thr, tte, call, generation>>

\* set_generation called by hand on the entry the last retrieve returned
EntryStamps == {0, 77, 255}
SetEntryGeneration ==
  \E g \in EntryStamps :
    /\ ttOp.n < MaxOps
    /\ ttOp.op = "retrieve" /\ ttOp.slot # 0
    /\ entries' = [entries EXCEPT ![ttOp.idx][ttOp.slot] = set_generation(@, g)]
    /\ shadow' = [shadow EXCEPT ![ttOp.idx][ttOp.slot].stamp = g]
    /\ ttOp' = TableOp("set_generation", NoArgs, ttOp.idx, ttOp.slot, g)
    /\ UNCHANGED <<pos, gen, thr, tte, call, generation>>

NewSearch ==
  /\ ttOp.n < MaxOps
  /\ generation' = new_search(generation)
  /\ ttOp' = TableOp("new_search", NoArgs, 0, 0, generation)
  /\ UNCHANGED <<pos, gen, thr, tte, call, entries, shadow>>

InitTable ==
  /\ MovegenIdle /\ tte = ZeroEntry /\ call = NoSave /\ thr = NoThreads
  /\ ttOp = NoOp
  /\ \E T \in FilledTables :
       entries = T.entries /\ generation = T.generation /\ shadow = T.shadow
NextTable == Store \/ Retrieve \/ Refresh \/ SetEntryGeneration \/ NewSearch
SpecTable == InitTable /\ [][NextTable]_vars

(***************************************************************************)
(* Cluster selection: first_entry on tables of every power-of-two size up  *)
(* to 2^MaxLogSize, for keys whose low word has low, high and sign bits    *)
(* set.                                                                    *)
(***************************************************************************)
MaxLogSize == 4
TableSizes == {Pow2(n) : n \in 0 .. MaxLogSize}
IndexKeys ==
  {[hi |-> h, lo |-> l] : h \in {0, 5},
                          l \in (0 .. 17) \cup {-1, -2, -6, 2147483647, 2147483632, -2147483647, 65536, 65541}}
size == Cardinality(DOMAIN entries)

\* first_entry is const: a call leaves the table as it was and returns the cluster
FirstEntry ==
  \E k \in IndexKeys :
    /\ ttOp' = [NoOp EXCEPT !.op = "first_entry", !.args = [NoArgs EXCEPT !.key = k],
                            !.idx = first_entry_sized(k, size)]
    /\ UNCHANGED <<pos, gen, thr, tte, call, entries, generation, shadow>>

InitIndex ==
  /\ MovegenIdle /\ tte = ZeroEntry /\ call = NoSave /\ thr = NoThreads
  /\ generation = 0 /\ ttOp = NoOp
  /\ \E n \in TableSizes :
       /\ entries = [i \in 0 .. n - 1 |-> [s \in Slots |-> ZeroEntry]]
       /\ shadow = [i \in 0 .. n - 1 |-> [s \in Slots |-> NoShadow]]
NextIndex == FirstEntry
SpecIndex == InitIndex /\ [][NextIndex]_vars

(***************************************************************************)
(* One entry shared by two threads without a lock: a store's save and a    *)
(* refresh's set_generation run at once.  A step is one load or one store  *)
(* of one field; the stores of save are independent of each other and may  *)
(* reach memory in any order.                                              *)
(***************************************************************************)
\* the entry the two calls meet: never written, or left by an earlier save
RaceOldEntries ==
  {ZeroEntry,
   save(ZeroEntry, 77, 100, 2, 6, 99, 7, -5, 9),
   save(ZeroEntry, 9, -32768, 3, 32767, 131071, 255, 32767, -1)}
RaceStores ==
  {[op |-> "save", k |-> 2147483647, v |-> 40000, t |-> 3, d |-> -32769, m |-> 131149, g |-> 255,
    statV |-> 70000, kd |-> -40000],
   [op |-> "save", k |-> 5, v |-> -7, t |-> 1, d |-> 12, m |-> 4660, g |-> 8, statV |-> 3, kd |-> 2]}
RaceGenerations == {8, 255}

\* both calls are entered; nothing is read or written yet
BeginCalls ==
  \E a \in RaceStores, g \in RaceGenerations :
    /\ thr.sg = "idle" /\ thr.pend = {}
    /\ call' = a
    /\ thr' = [thr EXCEPT !.pend = Fields, !.sg = "read_move", !.g = g, !.old = tte]
    /\ UNCHANGED <<pos, gen, tte, entries, generation, ttOp, shadow>>

\* save stores one of its fields
SaveWrite ==
  \E f \in thr.pend :
    /\ tte' = [tte EXCEPT ![f] =
                save(tte, call.k, call.v, call.t, call.d, call.m, call.g, call.statV, call.kd)[f]]
    /\ thr' = [thr EXCEPT !.pend = @ \ {f}]
    /\ UNCHANGED <<pos, gen, call, entries, generation, ttOp, shadow>>

\* set_generation loads data for move()
ReadMove ==
  /\ thr.sg = "read_move"
  /\ thr' = [thr EXCEPT !.rdMove = tte.data, !.sg = "read_type"]
  /\ UNCHANGED <<pos, gen, tte, call, entries, generation, ttOp, shadow>>

\* set_generation loads data for type()
ReadType ==
  /\ thr.sg = "read_type"
  /\ thr' = [thr EXCEPT !.rdType = tte.data, !.sg = "write"]
  /\ UNCHANGED <<pos, gen, tte, call, entries, generation, ttOp, shadow>>

\* set_generation stores data
WriteData ==
  /\ thr.sg = "write"
  /\ tte' = [tte EXCEPT !.data = set_generation_word(thr.rdMove, thr.rdType, thr.g)]
  /\ thr' = [thr EXCEPT !.sg = "done"]
  /\ UNCHANGED <<pos, gen, call, entries, generation, ttOp, shadow>>

InitRace ==
  /\ MovegenIdle /\ TableIdle
  /\ tte \in RaceOldEntries /\ call = NoSave /\ thr = NoThreads
NextRace == BeginCalls \/ SaveWrite \/ ReadMove \/ ReadType \/ WriteData
SpecRace == InitRace /\ [][NextRace]_vars

(***************************************************************************)
(* Properties of the move generator                                        *)
(***************************************************************************)
MoveSet(list) == {list[i] : i \in 1 .. Len(list)}
Count(list, m) == Cardinality({i \in 1 .. Len(list) : list[i] = m})
Us == side_to_move(pos)
Them == opposite_color(side_to_move(pos))
Ksq == king_square(pos, side_to_move(pos))
Attacked(p, s, by) == attackers_to(p, s) \cap pieces_of_color(p, by) # {}

\* C1: for a position not in check, generate_moves(pos, list, false) returns exactly
\* the moves of the pseudo-legal list that pass pl_move_is_legal, each as often as
\* the pseudo-legal list holds it: none added, lost or duplicated
C1_LegalListIsFilteredPseudoLegal ==
  (gen.op = "generate_moves" /\ gen.cat = "legal" /\ ~is_check(pos)) =>
    \A m \in MoveSet(generate_moves(pos, TRUE)) \cup MoveSet(gen.mlist) :
      Count(gen.mlist, m) =
        IF pl_move_is_legal(pos, m, pinned_pieces(pos, Us))
        THEN Count(generate_moves(pos, TRUE), m) ELSE 0

\* the removal has dropped at least two moves and kept some
C1_Witness ==
  /\ gen.op = "generate_moves" /\ gen.cat = "legal" /\ ~is_check(pos)
  /\ Len(gen.mlist) > 0
  /\ Len(gen.mlist) + 2 <= Len(generate_moves(pos, TRUE))

\* C2: under a double check every move generate_evasions emits is a king move
C2_DoubleCheckOnlyKingMoves ==
  (gen.op = "generate_evasions" /\ Cardinality(checkers(pos)) > 1) =>
    \A i \in 1 .. Len(gen.mlist) :
      gen.mlist[i].from = Ksq /\ gen.mlist[i].special = "none"

\* a double check with a king move emitted and a piece that could take a checker
C2_Witness ==
  /\ gen.op = "generate_evasions"
  /\ Cardinality(checkers(pos)) = 2
  /\ Len(gen.mlist) > 0
  /\ \E s \in pieces_of_color(pos, Us) \ {Ksq} :
       attacks_from_piece(pos, pos.board[s], s) \cap checkers(pos) # {}

\* t lies on the rank, file or diagonal through a and b
OnLineThrough(a, b, t) ==
  \/ (square_file(a) = square_file(b) /\ square_file(t) = square_file(a))
  \/ (square_rank(a) = square_rank(b) /\ square_rank(t) = square_rank(a))
  \/ /\ square_file(a) - square_rank(a) = square_file(b) - square_rank(b)
     /\ square_file(t) - square_rank(t) = square_file(a) - square_rank(a)
  \/ /\ square_file(a) + square_rank(a) = square_file(b) + square_rank(b)
     /\ square_file(t) + square_rank(t) = square_file(a) + square_rank(a)

SingleSliderCheck ==
  /\ Cardinality(checkers(pos)) = 1
  /\ \A c \in checkers(pos) : type_of_piece_on(pos, c) \in {BISHOP, ROOK, QUEEN}

\* C3: checked by one bishop, rook or queen, no king move of generate_evasions goes to
\* a square of the line through checker and king, on either side of the king,
\* other than the checker's own square
C3_NoKingMoveAlongCheckRay ==
  (gen.op = "generate_evasions" /\ SingleSliderCheck) =>
    \A i \in 1 .. Len(gen.mlist) : \A c \in checkers(pos) :
      (gen.mlist[i].from = Ksq /\ OnLineThrough(c, Ksq, gen.mlist[i].to)) => gen.mlist[i].to = c

\* a single slider check where the square behind the king is free, unattacked on the
\* board as it stands and still not a destination, while other king moves are
C3_Witness ==
  /\ gen.op = "generate_evasions" /\ SingleSliderCheck
  /\ \E i \in 1 .. Len(gen.mlist) : gen.mlist[i].from = Ksq
  /\ \E t \in KingStepAttacks[Ksq] : \E c \in checkers(pos) :
       /\ OnLineThrough(c, Ksq, t) /\ t # c
       /\ square_is_empty(pos, t)
       /\ ~Attacked(pos, t, Them)
       /\ make_move(Ksq, t) \notin MoveSet(gen.mlist)

\* the squares the king crosses when castling on that side, both ends included
KingCastlePath(p, Side) ==
  LET s1 == relative_square(side_to_move(p), IF Side = "KING_SIDE" THEN SQ_G1 ELSE SQ_C1)
  IN Min(king_square(p, side_to_move(p)), s1) .. Max(king_square(p, side_to_move(p)), s1)

\* C7: no castling move is emitted when a square the king crosses, from its own square
\* to its destination, is attacked by an enemy piece
C7_NoCastleThroughAttack ==
  (gen.op = "generate_castle_moves" /\ \E s \in KingCastlePath(pos, gen.cat) : Attacked(pos, s, Them))
    => gen.mlist = <<>>

\* the right is held, the king on e1 and the rook on h1 with f1 and g1 empty, only the
\* transit square f1 is attacked, the destination g1 is not: nothing is emitted
C7_Witness ==
  /\ gen.op = "generate_castle_moves" /\ gen.cat = "KING_SIDE"
  /\ Us = WHITE /\ can_castle_kingside(pos, WHITE)
  /\ Ksq = 4 /\ initial_kr_square(pos, WHITE) = 7
  /\ square_is_empty(pos, 5) /\ square_is_empty(pos, 6)
  /\ Attacked(pos, 5, BLACK) /\ ~Attacked(pos, 6, BLACK) /\ ~Attacked(pos, 4, BLACK)
  /\ gen.mlist = <<>>

\* a move of two squares straight ahead
IsDoubleStep(m) == m.to - m.from = DELTA_NN \/ m.to - m.from = DELTA_SS
\* the double push m is in order: forward for the side to move, onto its fourth rank,
\* with the square passed over and the destination both empty
DoublePushOk(p, m) ==
  /\ m.to - m.from = (IF side_to_move(p) = WHITE THEN DELTA_NN ELSE DELTA_SS)
  /\ square_rank(m.to) = (IF side_to_move(p) = WHITE THEN RANK_4 ELSE RANK_5)
  /\ square_is_empty(p, m.to)
  /\ square_is_empty(p, (m.from + m.to) \div 2)

\* C8: a pawn double push is generated (non-capture, check, evasion categories) and
\* accepted by the fast move_is_legal only with the square in front of the pawn and the
\* destination empty and the destination on the side's fourth rank
C8_DoublePushNeedsBothSquaresEmpty ==
  /\ (gen.op = "generate_pawn_moves" /\ gen.cat \in {"NON_CAPTURE", "CHECK", "EVASION"}) =>
       \A i \in 1 .. Len(gen.mlist) :
         (gen.mlist[i].special = "none" /\ IsDoubleStep(gen.mlist[i])) => DoublePushOk(pos, gen.mlist[i])
  /\ (/\ gen.op = "move_is_legal_pinned" /\ gen.ok
      /\ type_of_piece_on(pos, gen.m.from) = PAWN /\ IsDoubleStep(gen.m)) => DoublePushOk(pos, gen.m)

\* a pawn on its second rank with the square in front empty and the destination
\* occupied: the non-capture list holds its single push and no double push
C8_Witness ==
  /\ gen.op = "generate_pawn_moves" /\ gen.cat = "NON_CAPTURE"
  /\ \E from \in pieces(pos, PAWN, WHITE) :
       /\ Us = WHITE /\ square_rank(from) = 1
       /\ square_is_empty(pos, from + DELTA_N)
       /\ square_is_occupied(pos, from + DELTA_NN)
       /\ make_move(from, from + DELTA_N) \in MoveSet(gen.mlist)
       /\ make_move(from, from + DELTA_NN) \notin MoveSet(gen.mlist)

IsStartBoard(p) == p.board = BoardOf(StartPlacements)
NumMoves(list, P(_)) == Cardinality({i \in 1 .. Len(list) : P(list[i])})

\* C9: in the standard initial position generate_noncaptures emits exactly 20 moves,
\* 8 single and 8 double pawn pushes and 4 knight moves, nothing else
C9_InitialPositionTwentyMoves ==
  (gen.op = "generate_noncaptures" /\ IsStartBoard(pos)) =>
    LET IsPawn(m) == type_of_piece_on(pos, m.from) = PAWN
        IsSingle(m) == IsPawn(m) /\ m.to - m.from \in {DELTA_N, DELTA_S}
        IsDouble(m) == IsPawn(m) /\ IsDoubleStep(m)
        IsKnight(m) == type_of_piece_on(pos, m.from) = KNIGHT
        IsPlain(m) == m.special = "none" /\ color_of_piece_on(pos, m.from) = Us
    IN /\ Len(gen.mlist) = 20
       /\ Cardinality(MoveSet(gen.mlist)) = 20
       /\ NumMoves(gen.mlist, IsSingle) = 8
       /\ NumMoves(gen.mlist, IsDouble) = 8
       /\ NumMoves(gen.mlist, IsKnight) = 4
       /\ NumMoves(gen.mlist, IsPlain) = 20

C9_Witness ==
  /\ gen.op = "generate_noncaptures" /\ IsStartBoard(pos) /\ Us = WHITE
  /\ Len(gen.mlist) = 20

\* the side to move has only its king, on the first or last rank; the only other piece
\* is the enemy queen at the other end of the king's file
LoneKingQueenCheck(p) ==
  /\ Cardinality(occupied_squares(p)) = 2
  /\ has_king(p, side_to_move(p))
  /\ square_rank(king_square(p, side_to_move(p))) \in {RANK_1, RANK_8}
  /\ \E q \in pieces(p, QUEEN, opposite_color(side_to_move(p))) :
       /\ square_file(q) = square_file(king_square(p, side_to_move(p)))
       /\ square_rank(q) = 7 - square_rank(king_square(p, side_to_move(p)))

\* C10: lone king on the edge of a file, checked along the file by the enemy queen at
\* the far end: only king moves are emitted, each off the file and off the queen's
\* diagonals, and none to the square next to the king on the file
C10_LoneKingSideSteps ==
  (gen.op = "generate_evasions" /\ LoneKingQueenCheck(pos)) =>
    \A i \in 1 .. Len(gen.mlist) : \A q \in pieces(pos, QUEEN, Them) :
      /\ gen.mlist[i].from = Ksq /\ gen.mlist[i].special = "none"
      /\ gen.mlist[i].to \in KingStepAttacks[Ksq]
      /\ square_file(gen.mlist[i].to) # square_file(Ksq)
      /\ FileDist(q, gen.mlist[i].to) # RankDist(q, gen.mlist[i].to)

\* the king on e1, the queen on e8: the side steps to d1, f1, d2 and f2 come out
C10_Witness ==
  /\ gen.op = "generate_evasions" /\ LoneKingQueenCheck(pos)
  /\ Ksq = 4
  /\ MoveSet(gen.mlist) = {make_move(4, 3), make_move(4, 5), make_move(4, 11), make_move(4, 13)}

(***************************************************************************)
(* Properties of the transposition table                                   *)
(***************************************************************************)
InRange16(x) == -32768 <= x /\ x <= 32767
\* r is x cut to its low 16 bits and read as a signed number
Truncated16(x, r) == InRange16(r) /\ (x - r) % 65536 = 0
\* r is x for an x of 16 bits, and x cut to 16 bits otherwise
Returns16(x, r) == (InRange16(x) => r = x) /\ Truncated16(x, r)

\* C4: after save(k, v, t, d, m, g, statV, kd) the accessors return k, t and g as
\* given, m when below 2^17 and its low 17 bits otherwise, and v, d, statV and kd when
\* within 16 bits and cut to 16 bits otherwise, each whatever the other arguments are
C4_SaveRoundTrip ==
  call.op = "save" =>
    /\ key(tte) = call.k
    /\ type(tte) = call.t
    /\ tte_generation(tte) = call.g
    /\ call.m < 131072 => move(tte) = call.m
    /\ 0 <= move(tte) /\ move(tte) < 131072 /\ (call.m - move(tte)) % 131072 = 0
    /\ Returns16(call.v, value(tte))
    /\ Returns16(call.d, depth(tte))
    /\ Returns16(call.statV, static_value(tte))
    /\ Returns16(call.kd, static_value_margin(tte))

\* a save with the move above 17 bits and the value above 16 bits, the rest in range
C4_Witness ==
  /\ call.op = "save"
  /\ call.m = 131149 /\ move(tte) = 77
  /\ call.v = 40000 /\ value(tte) = -25536
  /\ call.d = 32767 /\ depth(tte) = 32767
  /\ call.t = 3 /\ type(tte) = 3
  /\ call.g = 255 /\ tte_generation(tte) = 255
  /\ call.statV = -1 /\ static_value(tte) = -1
  /\ call.kd = 5 /\ static_value_margin(tte) = 5

FillKeys == {FillArgs(h, 0).key : h \in Slots}
\* the truncated keys cluster i answers for, among all the keys in play
HeldKeys(i) ==
  {posKey32(k) : k \in {x \in RetrieveKeys \cup FillKeys : first_entry(x) = i /\ retrieve(entries, x) # 0}}
\* every slot of the cluster has been written by a store
FullCluster(sh) == \A s \in Slots : sh[s].used
\* no slot of the cluster was last stored under the truncated key k32
KeyNotStored(sh, k32) == \A s \in Slots : sh[s].hi # k32
\* how many searches ago the slot was last stored or refreshed
StampAge(x) == (generation - x.stamp) % 256
\* the slots of the last call's cluster whose entry the call changed
Replaced == {s \in Slots : entries[ttOp.idx][s] # ttOp.before[s]}

\* C5: a cluster never holds more than 4 stored entries; a store whose key matches no
\* slot of a cluster with all 4 slots in use replaces exactly one entry, one of the
\* oldest generation and, among those, of the shallowest depth
C5_ClusterBoundAndEviction ==
  /\ \A i \in 0 .. TableSize - 1 :
       /\ Cardinality(HeldKeys(i)) <= ClusterSize
       /\ Cardinality({s \in DOMAIN entries[i] : shadow[i][s].used}) <= ClusterSize
  /\ (/\ ttOp.op = "store"
      /\ FullCluster(ttOp.shBefore)
      /\ KeyNotStored(ttOp.shBefore, posKey32(ttOp.args.key))) =>
       \E s \in Slots :
         /\ Replaced = {s}
         /\ key(entries[ttOp.idx][s]) = posKey32(ttOp.args.key)
         /\ \A r \in Slots :
              /\ StampAge(ttOp.shBefore[s]) >= StampAge(ttOp.shBefore[r])
              /\ StampAge(ttOp.shBefore[s]) = StampAge(ttOp.shBefore[r]) =>
                   ttOp.shBefore[s].depth <= ttOp.shBefore[r].depth

\* a new key stored into a full cluster after a refresh: the entry replaced is not in
\* the first slot, is older than the refreshed one and deeper than a younger one
C5_Witness ==
  /\ ttOp.op = "store" /\ ttOp.prevOp = "refresh"
  /\ FullCluster(ttOp.shBefore)
  /\ KeyNotStored(ttOp.shBefore, posKey32(ttOp.args.key))
  /\ \E s \in Slots \ {1} :
       /\ Replaced = {s}
       /\ \E r \in Slots :
            /\ StampAge(ttOp.shBefore[r]) < StampAge(ttOp.shBefore[s])
            /\ ttOp.shBefore[r].depth < ttOp.shBefore[s].depth

\* C6: retrieve(key) straight after store(key, ...) returns an entry with that
\* truncated key and the values just stored; retrieve of a key whose truncated key
\* none of the entries of its filled cluster was stored under returns no match
C6_RetrieveAfterStore ==
  /\ (ttOp.op = "retrieve" /\ ttOp.prevOp = "store" /\ ttOp.prevArgs.key = ttOp.args.key) =>
       /\ ttOp.slot # 0
       /\ key(entries[ttOp.idx][ttOp.slot]) = posKey32(ttOp.args.key)
       /\ value(entries[ttOp.idx][ttOp.slot]) = ttOp.prevArgs.v
       /\ type(entries[ttOp.idx][ttOp.slot]) = ttOp.prevArgs.t
       /\ depth(entries[ttOp.idx][ttOp.slot]) = ttOp.prevArgs.d
       /\ move(entries[ttOp.idx][ttOp.slot]) = ttOp.prevArgs.m
       /\ static_value(entries[ttOp.idx][ttOp.slot]) = ttOp.prevArgs.statV
       /\ static_value_margin(entries[ttOp.idx][ttOp.slot]) = ttOp.prevArgs.kingD
  /\ (/\ ttOp.op = "retrieve"
      /\ FullCluster(shadow[ttOp.idx])
      /\ KeyNotStored(shadow[ttOp.idx], posKey32(ttOp.args.key))) => ttOp.slot = 0

\* a key new to a full cluster is stored, evicting an entry, and retrieved at once
C6_Witness ==
  /\ ttOp.op = "retrieve" /\ ttOp.prevOp = "store" /\ ttOp.prevArgs.key = ttOp.args.key
  /\ FullCluster(shadow[ttOp.idx])
  /\ ttOp.slot > 1
  /\ Cardinality({s \in Slots : shadow[ttOp.idx][s].hi \in {1, 2, 3, 4}}) = 3
  /\ value(entries[ttOp.idx][ttOp.slot]) = -200

\* the fields of the two entries other than the generation agree
SameButGeneration(e, b) ==
  /\ key(e) = key(b) /\ move(e) = move(b) /\ type(e) = type(b)
  /\ value(e) = value(b) /\ depth(e) = depth(b)
  /\ static_value(e) = static_value(b)
  /\ static_value_margin(e) = static_value_margin(b)

\* C11: set_generation(g) and refresh(entry) change only the generation of the entry:
\* afterwards generation() is g (for refresh the table's generation) and the key,
\* move, type, value, depth, static value and margin are as before the call
C11_OnlyGenerationChanges ==
  /\ ttOp.op = "set_generation" =>
       /\ tte_generation(entries[ttOp.idx][ttOp.slot]) = ttOp.g
       /\ SameButGeneration(entries[ttOp.idx][ttOp.slot], ttOp.before[ttOp.slot])
  /\ ttOp.op = "refresh" =>
       /\ tte_generation(entries[ttOp.idx][ttOp.slot]) = generation
       /\ SameButGeneration(entries[ttOp.idx][ttOp.slot], ttOp.before[ttOp.slot])

\* a refresh of an entry of an earlier search that holds a move and a bound type
C11_Witness ==
  /\ ttOp.op = "refresh"
  /\ tte_generation(ttOp.before[ttOp.slot]) # generation
  /\ tte_generation(entries[ttOp.idx][ttOp.slot]) = generation
  /\ move(entries[ttOp.idx][ttOp.slot]) > 0
  /\ type(entries[ttOp.idx][ttOp.slot]) = 3

\* C12: new_search adds one to the generation counter, 255 wrapping to 0, and leaves
\* every entry of every cluster, generation stamps included, as it was
C12_NewSearchBumpsCounterOnly ==
  [][ttOp'.op = "new_search" =>
       /\ generation' = (IF generation = 255 THEN 0 ELSE generation + 1)
       /\ entries' = entries
       /\ \A i \in DOMAIN entries : \A s \in Slots :
            tte_generation(entries'[i][s]) = tte_generation(entries[i][s])]_vars

\* the counter has wrapped from 255 to 0 over a full cluster stamped 254
C12_Witness ==
  /\ ttOp.op = "new_search" /\ ttOp.g = 255 /\ generation = 0
  /\ FullCluster(shadow[0])
  /\ \A s \in Slots : tte_generation(entries[0][s]) = 254

\* the pawn moves onto the promotion rank the position offers: a pawn of the side
\* to move on its seventh rank pushing to an empty square or capturing an enemy
\* piece on a neighbouring file
PromotionSteps(p) ==
  {ft \in pieces(p, PAWN, side_to_move(p)) \X Squares :
     /\ square_rank(relative_square(side_to_move(p), ft[1])) = 6
     /\ square_rank(ft[2]) - square_rank(ft[1]) = (IF side_to_move(p) = WHITE THEN 1 ELSE -1)
     /\ \/ square_file(ft[2]) = square_file(ft[1]) /\ square_is_empty(p, ft[2])
        \/ /\ FileDist(ft[1], ft[2]) = 1
           /\ color_of_piece_on(p, ft[2]) = opposite_color(side_to_move(p))}
\* those of them the category's call can produce: an evasion must block or capture the checker
CategorySteps(p, Type) ==
  IF Type = "EVASION"
  THEN {ft \in PromotionSteps(p) :
          ft[2] \in checkers(p)
                    \cup UNION {squares_between(c, king_square(p, side_to_move(p))) : c \in checkers(p)}}
  ELSE PromotionSteps(p)
Promotes(ft, t) == make_promotion_move(ft[1], ft[2], t) \in MoveSet(gen.mlist)
KnightChecksFrom(p, to) == king_square(p, opposite_color(side_to_move(p))) \in KnightStepAttacks[to]

\* C13 as stated: every pawn move onto the promotion rank gets its queen promotion
\* in every category, rook, bishop and knight promotions in the non-capture and
\* evasion categories only, and in the check category a knight promotion exactly
\* when the knight on the promotion square attacks the enemy king
C13_QueenInEveryCategory ==
  gen.op = "generate_pawn_moves" =>
    \A ft \in CategorySteps(pos, gen.cat) :
      /\ Promotes(ft, QUEEN)
      /\ Promotes(ft, ROOK) => gen.cat \in {"NON_CAPTURE", "EVASION"}
      /\ Promotes(ft, BISHOP) => gen.cat \in {"NON_CAPTURE", "EVASION"}
      /\ gen.cat = "CHECK" => (Promotes(ft, KNIGHT) <=> KnightChecksFrom(pos, ft[2]))
      /\ gen.cat = "CAPTURE" => ~Promotes(ft, KNIGHT)

\* C13 (amended): for every pawn move onto the promotion rank, the queen promotion is
\* generated in the capture and evasion categories and in no other, the rook and
\* bishop promotions in the non-capture and evasion categories and in no other, the
\* knight promotion in those two and, in the check category, exactly when a knight
\* on the promotion square attacks the enemy king; no other promotion is generated
C13_PromotionPiecesByCategory ==
  gen.op = "generate_pawn_moves" =>
    /\ \A ft \in CategorySteps(pos, gen.cat) :
         /\ Promotes(ft, QUEEN) <=> gen.cat \in {"CAPTURE", "EVASION"}
         /\ Promotes(ft, ROOK) <=> gen.cat \in {"NON_CAPTURE", "EVASION"}
         /\ Promotes(ft, BISHOP) <=> gen.cat \in {"NON_CAPTURE", "EVASION"}
         /\ Promotes(ft, KNIGHT) <=>
              \/ gen.cat \in {"NON_CAPTURE", "EVASION"}
              \/ gen.cat = "CHECK" /\ KnightChecksFrom(pos, ft[2])
    /\ \A m \in MoveSet(gen.mlist) :
         m.special = "promotion" => <<m.from, m.to>> \in CategorySteps(pos, gen.cat)

\* the check category at a position with a promoting capture and a promoting push,
\* where it returned a checking knight promotion and no queen promotion
C13_Witness ==
  /\ gen.op = "generate_pawn_moves" /\ gen.cat = "CHECK"
  /\ \E ft \in PromotionSteps(pos) : FileDist(ft[1], ft[2]) = 1
  /\ \E ft \in PromotionSteps(pos) :
       /\ FileDist(ft[1], ft[2]) = 0
       /\ Promotes(ft, KNIGHT) /\ ~Promotes(ft, QUEEN)

RaceOver == call.op = "save" /\ thr.pend = {} /\ thr.sg = "done"
StoredMove == ToInt(BitAnd(Word(call.m), Mask17))

\* C19 as stated: once a refresh and a store on the same slot have both finished,
\* the slot's key, move and bound type all come from the store; it never holds the
\* new key with the move or the type of the entry that was overwritten
C19_KeyMoveTypeFromOneStore ==
  RaceOver => (key(tte) = call.k => move(tte) = StoredMove /\ type(tte) = call.t)

\* C19 (amended): once both have finished, the slot holds the key, value, depth and
\* static values of the store; its move is the stored one or the overwritten
\* entry's, its bound type is the stored one or the overwritten entry's, and its
\* generation is the one the store or the refresh was given
C19_KeyFromStoreMoveTypeFromEither ==
  RaceOver =>
    /\ key(tte) = call.k
    /\ value(tte) = Int16(call.v) /\ depth(tte) = Int16(call.d)
    /\ static_value(tte) = Int16(call.statV) /\ static_value_margin(tte) = Int16(call.kd)
    /\ move(tte) \in {StoredMove, move(thr.old)}
    /\ type(tte) \in {call.t, type(thr.old)}
    /\ tte_generation(tte) \in {call.g, thr.g}

\* both have finished and the slot holds the new key with the move and the bound
\* type of the entry that was overwritten, which differ from the stored ones
C19_Witness ==
  /\ RaceOver
  /\ key(tte) = call.k /\ key(thr.old) # call.k
  /\ move(tte) = move(thr.old) /\ move(tte) # StoredMove
  /\ type(tte) = type(thr.old) /\ type(tte) # call.t

\* C15: on a table with a power-of-two number of clusters, first_entry(key) is the
\* low-order bits of the key masked by the count less one, that is the low word
\* modulo the count; it is at least 0 and below the count, and every key with the
\* same low-order bits selects the same cluster
C15_ClusterIndexIsLowBits ==
  ttOp.op = "first_entry" =>
    /\ ttOp.idx = ttOp.args.key.lo % size
    /\ 0 <= ttOp.idx /\ ttOp.idx < size
    /\ \A k \in IndexKeys :
         k.lo % size = ttOp.args.key.lo % size => first_entry_sized(k, size) = ttOp.idx

\* a key whose low word has every bit set, the sign bit included, and a nonzero
\* high word, on a table of at least four clusters: it selects the last cluster
C15_Witness ==
  /\ ttOp.op = "first_entry"
  /\ size >= 4
  /\ ttOp.args.key.lo = -1 /\ ttOp.args.key.hi # 0
  /\ ttOp.idx = size - 1

\* the castling call recorded in gen: its rook, whether the right is held, the range
\* the rook crosses, and the move it may emit
CastleRsq ==
  IF gen.cat = "KING_SIDE" THEN initial_kr_square(pos, Us) ELSE initial_qr_square(pos, Us)
CastleRightHeld ==
  IF gen.cat = "KING_SIDE" THEN can_castle_kingside(pos, Us) ELSE can_castle_queenside(pos, Us)
RookCastlePath ==
  LET s2 == relative_square(Us, IF gen.cat = "KING_SIDE" THEN SQ_F1 ELSE SQ_D1)
  IN Min(CastleRsq, s2) .. Max(CastleRsq, s2)
\* (b): the rook's range is empty but for the king and the rook themselves
RookPathClear ==
  \A s \in RookCastlePath : s = Ksq \/ s = CastleRsq \/ square_is_empty(pos, s)
\* (c): not the queenside case of a b-file rook with an enemy rook or queen in the corner
CornerClear ==
  ~ /\ gen.cat = "QUEEN_SIDE"
    /\ square_file(CastleRsq) = FILE_B
    /\ piece_on(pos, relative_square(Us, SQ_A1)) \in
         {piece_of_color_and_type(Them, ROOK), piece_of_color_and_type(Them, QUEEN)}
\* (a) as stated: the king's and the rook's own squares are exempt from both tests
KingPathAsStated ==
  \A s \in KingCastlePath(pos, gen.cat) :
    s = Ksq \/ s = CastleRsq \/ (square_is_empty(pos, s) /\ ~Attacked(pos, s, Them))
\* (a) amended: they are exempt from the occupancy test only
KingPathSafe ==
  \A s \in KingCastlePath(pos, gen.cat) :
    /\ ~Attacked(pos, s, Them)
    /\ s = Ksq \/ s = CastleRsq \/ square_is_empty(pos, s)
EmitsCastleIff(ok) ==
  gen.mlist = (IF ok THEN <<make_castle_move(Ksq, CastleRsq)>> ELSE <<>>)

\* C16 as stated: one castling move exactly when the right is held and (a) every
\* square of the king's range is the king's or the rook's own or is unoccupied and
\* not attacked, (b) the rook's range is unoccupied but for king and rook, (c) it is
\* not the b-file rook with an enemy rook or queen in the corner; otherwise none
C16_CastleEmittedIffPathsClear ==
  gen.op = "generate_castle_moves" =>
    EmitsCastleIff(CastleRightHeld /\ KingPathAsStated /\ RookPathClear /\ CornerClear)

\* C16 (amended): one castling move exactly when the right is held and (a) no square
\* of the king's range, the rook's own square included, is attacked by the opponent
\* and each is unoccupied unless it is the king's or the rook's own, (b) and (c) as
\* stated; otherwise none
C16_CastleEmittedIffPathSafe ==
  gen.op = "generate_castle_moves" =>
    EmitsCastleIff(CastleRightHeld /\ KingPathSafe /\ RookPathClear /\ CornerClear)

\* king b1, rook g1: the rook stands on the king's destination, which an enemy piece
\* attacks; every other square of both ranges is empty and unattacked; nothing is emitted
C16_Witness ==
  /\ gen.op = "generate_castle_moves" /\ gen.cat = "KING_SIDE"
  /\ Us = WHITE /\ CastleRightHeld
  /\ Ksq = 1 /\ CastleRsq = 6
  /\ Attacked(pos, 6, BLACK)
  /\ KingPathAsStated /\ RookPathClear /\ CornerClear
  /\ gen.mlist = <<>>

\* C17: for a position not in check and a move that is not a castle, a promotion or
\* en passant, the fast move_is_legal(pos, m, pinned) returns what the slow
\* move_is_legal(pos, m) returns: true exactly when m is in the pseudo-legal list of
\* generate_moves(pos, list, true) and pl_move_is_legal(m, pinned) holds
C17_FastTestAgreesWithSlow ==
  (gen.op = "move_is_legal_pinned" /\ ~is_check(pos) /\ ~move_is_special(gen.m)) =>
    /\ gen.ok = move_is_legal(pos, gen.m)
    /\ gen.ok = (/\ InList(gen.m, generate_moves(pos, TRUE))
                 /\ pl_move_is_legal(pos, gen.m, pinned_pieces(pos, Us)))

PromotionPieces == {QUEEN, ROOK, BISHOP, KNIGHT}

\* C18: for a position not in check the list of generate_non_evasions holds no move
\* twice and is, as a set, the union of the lists of generate_captures and
\* generate_noncaptures, which have no move in common; every pawn move onto the
\* promotion rank, push or capture, is in it once with each of the four pieces
C18_NonEvasionsIsCapturesPlusNonCaptures ==
  (gen.op = "generate_non_evasions" /\ ~is_check(pos)) =>
    /\ \A m \in MoveSet(gen.mlist) : Count(gen.mlist, m) = 1
    /\ MoveSet(gen.mlist) = MoveSet(generate_captures(pos)) \cup MoveSet(generate_noncaptures(pos))
    /\ MoveSet(generate_captures(pos)) \cap MoveSet(generate_noncaptures(pos)) = {}
    /\ \A ft \in PromotionSteps(pos) : \A t \in PromotionPieces :
         Count(gen.mlist, make_promotion_move(ft[1], ft[2], t)) = 1

\* a position with a promoting push and two promoting captures: the list holds the
\* twelve promotions among its moves, the queen promotion of a capture included
C18_Witness ==
  /\ gen.op = "generate_non_evasions"
  /\ Cardinality(PromotionSteps(pos)) = 3
  /\ Cardinality({m \in MoveSet(gen.mlist) : m.special = "promotion"}) = 12
  /\ \E ft \in PromotionSteps(pos) :
       FileDist(ft[1], ft[2]) = 1 /\ Promotes(ft, QUEEN) /\ Promotes(ft, KNIGHT)

====
